---- MODULE Spec2Model ----
(***************************************************************************)
(* A model of crocks, a sharded key-value store over RocksDB: the cluster  *)
(* information kept in etcd (Info, info.proto), the asynchronous server's  *)
(* RPC handlers (GetCall, PutCall, DeleteCall, BatchCall, MigrateCall),    *)
(* the recipient's WatchThread and the shard reference discipline.         *)
(***************************************************************************)
EXTENDS Integers, Sequences, FiniteSets, TLC

\* ------------------------------------------------------------------ bounds
\* Processes (addresses) that may join the cluster in SpecInfo.
MaxProcs == 2
\* Largest --shards value a joining node declares in SpecInfo.
MaxNewShards == 2
\* Server crashes in one behaviour.
MaxCrashes == 1
\* Keys of the data model: 1 .. NumKeys.
NumKeys == 2
\* The last version a client write can get in one behaviour of Spec (the
\* preloaded values have version 1).
MaxWrites == 2
\* Keys per SST file that ShardMigrator::DumpShard builds.
SstKeys == 1
\* Shards the first node of Spec declared when it created the cluster.
NumShards == 2
\* Shards of the cluster of SpecBatch.
BatchShards == 3
\* Updates in one BatchBuffer, and in one behaviour of SpecBatch.
MaxChunk == 2
MaxUpdates == 3
\* Keys that the column families of SpecIter may hold: 1 .. MaxIterKeys.
MaxIterKeys == 11

\* ------------------------------------------------------------ ClusterInfo
\* info.proto: ClusterInfo.State
INIT == "INIT"
RUNNING == "RUNNING"
MIGRATING == "MIGRATING"

\* The value of kInfoKey in etcd when the key is missing.
NoInfo == [state |-> "NONE", nodes |-> <<>>, shards |-> <<>>]

\* info.proto: NodeInfo (address 0 is the empty string; id is the slot index).
NodeInfo(address, num) ==
  [address |-> address, num_shards |-> num, available |-> TRUE, remove |-> FALSE]

\* info.proto: ShardInfo
ShardInfo(master) ==
  [master |-> master, migrating |-> FALSE, from |-> 0, to |-> 0]

\* Node ids and shard ids are 0-based, the repeated fields are sequences.
NodeIds(b) == 0 .. (Len(b.nodes) - 1)
ShardIds(b) == 0 .. (Len(b.shards) - 1)
NodeAt(b, id) == b.nodes[id + 1]
ShardAt(b, s) == b.shards[s + 1]

IsInit(b) == b.state = INIT
IsRunning(b) == b.state = RUNNING
IsMigrating(b) == b.state = MIGRATING
IsAvailable(b, id) == NodeAt(b, id).available
IsRemoved(b, id) == NodeAt(b, id).remove
Address(b, id) == NodeAt(b, id).address
IndexForShard(b, s) == ShardAt(b, s).master
IsMigratingShard(b, s) == ShardAt(b, s).migrating
NoMigrations(b) == \A s \in ShardIds(b) : ~ShardAt(b, s).migrating

\* InfoWrapper::IndexOf: the slot that lists the address, -1 when none does.
IndexOf(b, address) ==
  IF \E id \in NodeIds(b) : Address(b, id) = address
  THEN CHOOSE id \in NodeIds(b) : Address(b, id) = address
  ELSE -1

\* An AddNode that takes the first slot whose address is empty, if any.
AddNode_Reuse(b, address) ==
  LET free == {i \in NodeIds(b) : Address(b, i) = 0} IN
  IF free = {} THEN [b EXCEPT !.nodes = Append(@, NodeInfo(address, 0))]
  ELSE LET i == CHOOSE j \in free : \A m \in free : j <= m
       IN [b EXCEPT !.nodes[i + 1] = NodeInfo(address, 0)]
\* InfoWrapper::AddNode: a new slot without shards.
AddNode(b, address) ==
  [b EXCEPT !.nodes = Append(@, NodeInfo(address, 0))]

\* InfoWrapper::AddNodeWithNewShards: a new slot and num new shards, all
\* mastered by the new node; existing shard ids are not renumbered.
AddNodeWithNewShards(b, address, num) ==
  LET id == Len(b.nodes) IN
  [state |-> IF b.state = "NONE" THEN INIT ELSE b.state,
   nodes |-> Append(b.nodes, NodeInfo(address, num)),
   shards |-> b.shards \o [i \in 1 .. num |-> ShardInfo(id)]]

\* InfoWrapper::MarkRemoveNode
MarkRemoveNode(b, id) == [b EXCEPT !.nodes[id + 1].remove = TRUE]

\* A RemoveNode that erases the slot, so that the later slots move down.
RemoveNode_Erase(b, id) ==
  [b EXCEPT !.nodes = SubSeq(@, 1, id) \o SubSeq(@, id + 2, Len(@))]
\* InfoWrapper::RemoveNode: the slot stays, its address is cleared.
RemoveNode(b, id) == [b EXCEPT !.nodes[id + 1].address = 0]

SetRunning(b) == [b EXCEPT !.state = RUNNING]
SetMigrating(b) == [b EXCEPT !.state = MIGRATING]

\* InfoWrapper::SetAvailable
SetAvailableW(b, id, available) ==
  [b EXCEPT !.nodes[id + 1].available = available]

\* A GiveShard that hands the shard back when it was given already.
GiveShardW_Toggle(b, id, s) ==
  [b EXCEPT !.shards[s + 1].master =
     IF ShardAt(b, s).master = ShardAt(b, s).to
     THEN ShardAt(b, s).from ELSE ShardAt(b, s).to]

\* InfoWrapper::GiveShard: master := to.
GiveShardW(b, id, s) ==
  [b EXCEPT !.shards[s + 1].master = ShardAt(b, s).to]

\* InfoWrapper::MigrationOver: clears migrating, from and to; the cluster is
\* RUNNING again once no shard is migrating.
MigrationOverW(b, s) ==
  LET c == [b EXCEPT !.shards[s + 1].migrating = FALSE,
                     !.shards[s + 1].from = 0,
                     !.shards[s + 1].to = 0]
  IN IF NoMigrations(c) THEN SetRunning(c) ELSE c

\* InfoWrapper::Tasks: the shards node id has to request, by donor.
Tasks(b, id) ==
  {<<ShardAt(b, s).from, s>> : s \in {t \in ShardIds(b) :
       ShardAt(b, t).migrating /\ ShardAt(b, t).to = id}}

\* InfoWrapper::IsHealthy: no shard is mastered by an unavailable node.
IsHealthy(b) ==
  \A s \in ShardIds(b) : IsAvailable(b, IndexForShard(b, s))

\* ---- InfoWrapper::RedistributeShards (largest remainder)
\* The nodes that take part: listed and not flagged for removal.
LiveNodes(b) == {id \in NodeIds(b) : Address(b, id) # 0 /\ ~IsRemoved(b, id)}

\* The node that will hold shard s once the pending migrations are over.
FutureOf(b, s) ==
  IF ShardAt(b, s).migrating THEN ShardAt(b, s).to ELSE ShardAt(b, s).master

\* The number of shards node id is entitled to.
Quota(b, id) ==
  LET live == LiveNodes(b)
      n == Cardinality(live)
      rank == Cardinality({j \in live : j < id})
      total == Len(b.shards)
  IN IF id \notin live \/ n = 0 THEN 0
     ELSE (total \div n) + (IF rank < total % n THEN 1 ELSE 0)

\* Shard s stays where it is: its node keeps its first Quota shards.
Keeps(b, s) ==
  LET m == FutureOf(b, s) IN
  \/ ShardAt(b, s).migrating
  \/ Cardinality({t \in ShardIds(b) : t < s /\ FutureOf(b, t) = m}) < Quota(b, m)

RECURSIVE Assign(_, _, _)
\* Hands the shards of todo, in ascending order, to the nodes below quota.
Assign(b, todo, count) ==
  IF todo = {} THEN b
  ELSE LET s == CHOOSE t \in todo : \A u \in todo : t <= u
           short == {id \in LiveNodes(b) : count[id] < Quota(b, id)}
       IN IF short = {} THEN b
          ELSE LET dst == CHOOSE id \in short : \A j \in short : id <= j
                   c == [b EXCEPT !.shards[s + 1].migrating = TRUE,
                                  !.shards[s + 1].from = ShardAt(b, s).master,
                                  !.shards[s + 1].to = dst]
               IN Assign(c, todo \ {s}, [count EXCEPT ![dst] = @ + 1])

RedistributeShards(b) ==
  LET moving == {s \in ShardIds(b) : ~Keeps(b, s)}
      count == [id \in NodeIds(b) |->
                  Cardinality({s \in ShardIds(b) \ moving : FutureOf(b, s) = id})]
  IN Assign(b, moving, count)

\* ------------------------------------------------------------------ state
VARIABLES
  etcd,     \* the value of kInfoKey in etcd (NoInfo: the key is missing)
  proc,     \* SpecInfo: per process its Info object (id_, info_) and CAS loop
  crashes,  \* the number of server crashes so far
  up,       \* node -> the server process is running
  view,     \* node -> info_, the node's parsed copy of ClusterInfo
  watchq,   \* node -> the watch events etcd has not yet delivered to it
  shards,   \* node -> shard id -> the Shard of the registry, or NoShard
  db,       \* node -> shard id -> the column family, or NoCF (on disk)
  imp,      \* node -> shard id -> the ShardImporter state kept on disk
  wt,       \* node -> position of its WatchThread
  mc,       \* node -> the MigrateCall it serves as donor
  st,       \* node -> the Migrate stream it opened as recipient
  getc,     \* the GetCall that waits for a forwarded Get (state GET)
  ver,      \* versions handed to client writes so far
  hist,     \* per key: what the clients were told about their writes
  snap,     \* shard id -> the snapshot the donor's last DumpShard read
  rsp,      \* the last response a client received
  bc,       \* SpecBatch: the BatchCall of node 0 and its stream
  cl,       \* SpecClient: the client's ClusterImpl and its Operation
  ic,       \* SpecIter: the IteratorCall of a node and its stream
  fin,      \* node -> the shards whose dump it has read to the end and answered
            \* with its terminating request (history)
  uc        \* SpecCall: a unary call object (PutCall, DeleteCall, GetCall) and
            \* the events of its completion queue

infoVars == <<proc>>
batchVars == <<bc>>
clientVars == <<cl>>
iterVars == <<ic>>
nodeVars == <<up, view, watchq, shards, db, imp, wt, mc, st, getc, ver, hist, snap, rsp>>
vars == <<etcd, crashes, infoVars, nodeVars, batchVars, clientVars, iterVars, fin, uc>>

\* -------------------------------------------------- Info's CAS loops (etcd)
\* A process of SpecInfo: a server (it joins with Add and gets an id), which
\* also stands for the operator's CLI and for a client when it calls Run,
\* Migrate, Remove(id) or SetAvailable.
Procs == 1 .. MaxProcs

Idle(p) ==
  [id |-> proc[p].id, pc |-> "idle", op |-> "none", args |-> <<>>,
   old |-> NoInfo, info |-> NoInfo]

\* The loop body may start: a new call, or the retry of the call whose
\* TxnPutIfValueEquals failed.
Ready(p, op, args) ==
  \/ proc[p].pc \in {"idle", "exit"}
  \/ proc[p].pc = "retry" /\ proc[p].op = op /\ proc[p].args = args

\* The loop body read old and left the mutated info_ to be written.
Pending(p, op, args, old, new, id) ==
  [id |-> id, pc |-> "cas", op |-> op, args |-> args, old |-> old, info |-> new]

\* The call returned (or the process exited) without writing.
Returned(p, info) == Idle(p)

\* Info::Add gave up: the process printed its error and exited.  It may be
\* started again.
Exited(p) == [Idle(p) EXCEPT !.pc = "exit"]

\* The server process with this node id is not running.
IsDown(id) == \A p \in Procs : proc[p].id # id

\* An Info::Add that does not look for its address among the slots.
InfoAddAs_Rejoin(p, address, num) ==
  /\ proc[p].id = -1
  /\ Ready(p, "Add", <<num>>)
  /\ LET old == etcd
     IN proc' = [proc EXCEPT ![p] =
          IF old = NoInfo
          THEN Pending(p, "Add", <<num>>, old, AddNodeWithNewShards(old, address, num), 0)
          ELSE IF IsInit(old)
          THEN Pending(p, "Add", <<num>>, old,
                       AddNodeWithNewShards(old, address, num), Len(old.nodes))
          ELSE IF IsRunning(old)
          THEN Pending(p, "Add", <<num>>, old, AddNode(old, address), Len(old.nodes))
          ELSE Exited(p)]
  /\ UNCHANGED <<etcd, crashes>>
\* An Info::Add that admits a new address while the cluster is MIGRATING.
InfoAddAs_Admit(p, address, num) ==
  /\ proc[p].id = -1
  /\ Ready(p, "Add", <<num>>)
  /\ LET old == etcd
         id == IndexOf(old, address)
     IN proc' = [proc EXCEPT ![p] =
          IF old = NoInfo
          THEN Pending(p, "Add", <<num>>, old, AddNodeWithNewShards(old, address, num), 0)
          ELSE IF id >= 0
          THEN IF IsAvailable(old, id) THEN Exited(p)
               ELSE Pending(p, "Add", <<num>>, old, old, id)
          ELSE IF IsInit(old)
          THEN Pending(p, "Add", <<num>>, old,
                       AddNodeWithNewShards(old, address, num), Len(old.nodes))
          ELSE Pending(p, "Add", <<num>>, old, AddNode(old, address), Len(old.nodes))]
  /\ UNCHANGED <<etcd, crashes>>
\* Info::Add(address, num_shards), one pass of the loop body up to the
\* transaction.
InfoAddAs(p, address, num) ==
  /\ proc[p].id = -1
  /\ Ready(p, "Add", <<num>>)
  /\ LET old == etcd
         id == IndexOf(old, address)
     IN proc' = [proc EXCEPT ![p] =
          IF old = NoInfo
          THEN Pending(p, "Add", <<num>>, old, AddNodeWithNewShards(old, address, num), 0)
          ELSE IF id >= 0
          THEN IF IsAvailable(old, id)
               THEN Exited(p)                         \* exit(EXIT_FAILURE)
               ELSE Pending(p, "Add", <<num>>, old, old, id)
          ELSE IF IsInit(old)
          THEN Pending(p, "Add", <<num>>, old,
                       AddNodeWithNewShards(old, address, num), Len(old.nodes))
          ELSE IF IsRunning(old)
          THEN Pending(p, "Add", <<num>>, old, AddNode(old, address), Len(old.nodes))
          ELSE Exited(p)]                              \* Migrating: exit
  /\ UNCHANGED <<etcd, crashes>>

\* Info::Add by the server whose address is p.
InfoAdd(p, num) ==
  /\ (IndexOf(etcd, p) = -1 /\ ~IsMigrating(etcd))      \* bound on the slots
       => Len(etcd.nodes) <= MaxProcs
  /\ InfoAddAs(p, p, num)

\* Info::Remove(id): the operator flags a node for removal.
InfoMarkRemove(p, id) ==
  /\ Ready(p, "MarkRemove", <<id>>)
  /\ etcd # NoInfo /\ id \in NodeIds(etcd)
  /\ IsRunning(etcd)                                   \* assert(IsRunning())
  /\ proc' = [proc EXCEPT ![p] =
       Pending(p, "MarkRemove", <<id>>, etcd, MarkRemoveNode(etcd, id), proc[p].id)]
  /\ UNCHANGED <<etcd, crashes>>

\* Info::Remove(): a node that holds no shard any more removes itself.
InfoRemove(p) ==
  /\ proc[p].id >= 0
  /\ Ready(p, "Remove", <<>>)
  /\ \A s \in ShardIds(etcd) : IndexForShard(etcd, s) # proc[p].id
  /\ proc' = [proc EXCEPT ![p] =
       Pending(p, "Remove", <<>>, etcd, RemoveNode(etcd, proc[p].id), proc[p].id)]
  /\ UNCHANGED <<etcd, crashes>>

\* An Info::Run that does not look at the pending migrations.
InfoRun_Force(p) ==
  /\ Ready(p, "Run", <<>>)
  /\ etcd # NoInfo
  /\ proc' = [proc EXCEPT ![p] =
       IF IsRunning(etcd)
       THEN Returned(p, etcd)
       ELSE Pending(p, "Run", <<>>, etcd, SetRunning(etcd), proc[p].id)]
  /\ UNCHANGED <<etcd, crashes>>

\* Info::Run, as ClusterImpl's constructor calls it: right after Info::Get,
\* so the test on the local copy and the test in the loop see the same blob
\* on the first pass.
InfoRun(p) ==
  /\ Ready(p, "Run", <<>>)
  /\ etcd # NoInfo
  /\ proc' = [proc EXCEPT ![p] =
       IF IsRunning(etcd) \/ ~NoMigrations(etcd)
       THEN Returned(p, etcd)
       ELSE Pending(p, "Run", <<>>, etcd, SetRunning(etcd), proc[p].id)]
  /\ UNCHANGED <<etcd, crashes>>

\* ClusterImpl::ClusterImpl: a client opens the cluster with info_.Get() and
\* info_.Run().  The process is not a server: it has no id.
InfoOpen(p) ==
  /\ proc[p].id = -1
  /\ Ready(p, "Open", <<>>)
  /\ etcd # NoInfo
  /\ proc' = [proc EXCEPT ![p] =
       IF IsRunning(etcd) \/ ~NoMigrations(etcd)
       THEN Returned(p, etcd)
       ELSE Pending(p, "Open", <<>>, etcd, SetRunning(etcd), proc[p].id)]
  /\ UNCHANGED <<etcd, crashes>>

\* An Info::Migrate that hands the shards over at once: master := to.
InfoMigrate_Take(p) ==
  /\ Ready(p, "Migrate", <<>>)
  /\ etcd # NoInfo
  /\ LET new == RedistributeShards(etcd)
         taken == [new EXCEPT !.shards = [i \in DOMAIN new.shards |->
                     IF new.shards[i].migrating
                     THEN [new.shards[i] EXCEPT !.master = new.shards[i].to]
                     ELSE new.shards[i]]]
     IN proc' = [proc EXCEPT ![p] =
          IF NoMigrations(new)
          THEN Returned(p, new)
          ELSE Pending(p, "Migrate", <<>>, etcd, SetMigrating(taken), proc[p].id)]
  /\ UNCHANGED <<etcd, crashes>>

\* An Info::Migrate that sets MIGRATING whatever RedistributeShards found.
InfoMigrate_Always(p) ==
  /\ Ready(p, "Migrate", <<>>)
  /\ etcd # NoInfo
  /\ proc' = [proc EXCEPT ![p] =
       Pending(p, "Migrate", <<>>, etcd, SetMigrating(RedistributeShards(etcd)),
               proc[p].id)]
  /\ UNCHANGED <<etcd, crashes>>
\* Info::Migrate
InfoMigrate(p) ==
  /\ Ready(p, "Migrate", <<>>)
  /\ etcd # NoInfo
  /\ LET new == RedistributeShards(etcd) IN
     proc' = [proc EXCEPT ![p] =
       IF NoMigrations(new)
       THEN Returned(p, new)
       ELSE Pending(p, "Migrate", <<>>, etcd, SetMigrating(new), proc[p].id)]
  /\ UNCHANGED <<etcd, crashes>>

\* Info::GiveShard: called by the donor's MigrateCall for a shard that a
\* recipient requested from it.
InfoGiveShard(p, s) ==
  /\ proc[p].id >= 0
  /\ Ready(p, "GiveShard", <<s>>)
  /\ s \in ShardIds(etcd)
  /\ ShardAt(etcd, s).migrating /\ ShardAt(etcd, s).from = proc[p].id
  /\ proc' = [proc EXCEPT ![p] =
       Pending(p, "GiveShard", <<s>>, etcd, GiveShardW(etcd, proc[p].id, s), proc[p].id)]
  /\ UNCHANGED <<etcd, crashes>>

\* Info::MigrationOver: called by the recipient's WatchThread once it is the
\* master of the shard and has ingested it.
InfoMigrationOver(p, s) ==
  /\ proc[p].id >= 0
  /\ Ready(p, "MigrationOver", <<s>>)
  /\ s \in ShardIds(etcd)
  /\ ShardAt(etcd, s).migrating /\ ShardAt(etcd, s).to = proc[p].id
  /\ IndexForShard(etcd, s) = proc[p].id
  /\ proc' = [proc EXCEPT ![p] =
       Pending(p, "MigrationOver", <<s>>, etcd, MigrationOverW(etcd, s), proc[p].id)]
  /\ UNCHANGED <<etcd, crashes>>

\* Info::SetAvailable
InfoSetAvailable(p, id, available) ==
  /\ Ready(p, "SetAvailable", <<id, available>>)
  /\ etcd # NoInfo /\ id \in NodeIds(etcd)
  /\ IF available THEN proc[p].id = id                 \* AsyncServer::Run
     ELSE IsDown(id) /\ Address(etcd, id) # 0          \* HandleError, OnDone
  /\ proc' = [proc EXCEPT ![p] =
       IF IsAvailable(etcd, id) = available
       THEN Returned(p, etcd)
       ELSE Pending(p, "SetAvailable", <<id, available>>, etcd,
                    SetAvailableW(etcd, id, available), proc[p].id)]
  /\ UNCHANGED <<etcd, crashes>>

\* A transaction that puts the value whatever the key holds.
TxnPut_Blind(p) ==
  /\ proc[p].pc = "cas"
  /\ etcd' = proc[p].info
  /\ proc' = [proc EXCEPT ![p] = Idle(p)]
  /\ UNCHANGED crashes

\* EtcdClient::TxnPutIfValueEquals / TxnPutIfKeyMissing: the transaction of
\* the pending loop body. On failure the loop runs its body again.
TxnPut(p) ==
  /\ proc[p].pc = "cas"
  /\ IF etcd = proc[p].old
     THEN /\ etcd' = proc[p].info
          /\ proc' = [proc EXCEPT ![p] = Idle(p)]
     ELSE /\ proc' = [proc EXCEPT ![p].pc = "retry",
                                  ![p].id = IF proc[p].op = "Add" THEN -1 ELSE @]
          /\ UNCHANGED etcd
  /\ UNCHANGED crashes

\* The server process dies; its slot stays in ClusterInfo.
ProcCrash(p) ==
  /\ proc[p].id >= 0
  /\ crashes < MaxCrashes
  /\ crashes' = crashes + 1
  /\ proc' = [proc EXCEPT ![p] = [Idle(p) EXCEPT !.id = -1]]
  /\ UNCHANGED etcd

\* ------------------------------------------------------ the server's data
\* The servers of the two-node cluster, and the servers of the cluster at hand.
Pair == {0, 1}
Nodes == DOMAIN up
Keys == 1 .. NumKeys
AddressOf(n) == n + 1
NodeOfAddress(address) == address - 1

\* The 32-bit CRC of the model's keys (Hash).
Crc32(k) == (k * k + k) \div 2

\* Info::ShardForKey / Info::WrongShard, on a node's copy of ClusterInfo.
ShardForKey(b, k) == Crc32(k) % Len(b.shards)
WrongShard(b, id, s) == IndexForShard(b, s) # id

\* An entry of a column family: 0 no entry, v > 0 the value written by the
\* Put of version v, -v the tombstone written by the Delete of version v.
NoCF == [absent |-> TRUE]
NoShard == [absent |-> TRUE]
EmptyLevel == [k \in Keys |-> 0]
\* A column family has the level that takes the writes and, below it, the
\* level that ingested SST files go to (allow_ingest_behind).
NewCF == [live |-> EmptyLevel, behind |-> EmptyLevel]
\* rocksdb::DB::Get on a column family: the upper level hides the lower one.
Lookup(cf, k) == IF cf.live[k] # 0 THEN cf.live[k] ELSE cf.behind[k]
NotFound(e) == e <= 0

\* Shards::Shards / Shards::Add: the Shard of the registry.
NewShard(importing, old_address, largest_key) ==
  [refs |-> 0, draining |-> FALSE, importing |-> importing,
   old_address |-> old_address, largest_key |-> largest_key]

\* Shard::Ref: refused once the shard is draining.
CanRef(sh) == sh # NoShard /\ ~sh.draining

\* Shard::Get: the entry read, and whether the former master has to be asked.
ShardGet(sh, cf, k) ==
  LET e == Lookup(cf, k) IN
  IF sh.importing /\ (k > sh.largest_key \/ NotFound(e))
  THEN [ask |-> TRUE, entry |-> 0]
  ELSE [ask |-> FALSE, entry |-> e]

\* No unary call is in progress.  kind: the handler class; status: status_;
\* op: the operation whose tag has not come back yet; cq: the events of the
\* call that the completion queue holds; done: gRPC has queued the done
\* notification; deleted: how many times delete this ran.
NoUc == [kind |-> "none", status |-> "none", finish_called |-> FALSE,
         on_done_called |-> FALSE, op |-> "none", cq |-> {}, done |-> FALSE,
         deleted |-> 0]
NoImport == [num |-> 0, largest_key |-> 0]
NoWatch == [pc |-> "down", todo |-> <<>>, shard |-> 0, donor |-> 0,
            setimp |-> FALSE]
NoCall == [status |-> "none", shard |-> 0, start_from |-> 0, retval |-> FALSE,
           out |-> <<>>, finish_called |-> FALSE, on_done_called |-> FALSE,
           cancelled |-> FALSE, peer |-> 0, term |-> FALSE, old_info |-> NoInfo]
NoStream == [open |-> FALSE, donor |-> 0, req |-> <<>>, resp |-> <<>>,
             status |-> "none"]
NoGet == [status |-> "none", node |-> 0, key |-> 0, fwd |-> "none", entry |-> 0,
          atMaster |-> FALSE, wrong |-> FALSE, floor |-> 0, last |-> 0,
          lastAtMaster |-> FALSE, fwdHeld |-> FALSE, fwdWrong |-> FALSE,
          fwdLocal |-> 0]
NoRsp == [op |-> "none", node |-> 0, key |-> 0, code |-> "none", entry |-> 0,
          atMaster |-> FALSE, wrong |-> FALSE, asked |-> FALSE, changed |-> FALSE, floor |-> 0,
          last |-> 0, lastAtMaster |-> FALSE, quiet |-> FALSE, held |-> FALSE,
          draining |-> FALSE]

\* etcd accepts a new value of kInfoKey and queues the event for each watcher.
Publish(new) ==
  /\ etcd' = new
  /\ watchq' = [n \in Nodes |-> IF up[n] THEN Append(watchq[n], new) ELSE watchq[n]]

\* The node that ClusterInfo in etcd declares master of the key's shard.
MasterOf(k) == IndexForShard(etcd, ShardForKey(etcd, k))

\* ---- PutCall::Proceed, DeleteCall::Proceed (state REQUEST)
\* A handler that applies the write although Ref was refused.
Mutate_IgnoreRef(n, k, op) ==
  LET s == ShardForKey(view[n], k)
      sh == shards[n][s]
      v == ver + 1
      e == IF op = "Put" THEN v ELSE 0 - v
      ok == sh # NoShard
      base == [NoRsp EXCEPT !.op = op, !.node = n, !.key = k,
                            !.atMaster = (MasterOf(k) = n),
                            !.wrong = WrongShard(view[n], n, s),
                            !.held = (sh # NoShard),
                            !.draining = (sh # NoShard /\ sh.draining)]
  IN /\ up[n]
     /\ ver < MaxWrites
     /\ IF ok
        THEN /\ db' = [db EXCEPT ![n][s].live[k] = e]
             /\ ver' = v
             /\ hist' = [hist EXCEPT ![k] =
                  [acked |-> IF op = "Put" /\ MasterOf(k) = n THEN v ELSE @.acked,
                   last |-> e, lastAtMaster |-> MasterOf(k) = n]]
             /\ rsp' = [base EXCEPT !.code = "OK", !.entry = e, !.changed = TRUE]
        ELSE /\ rsp' = [base EXCEPT !.code = "INVALID_ARGUMENT"]
             /\ UNCHANGED <<db, ver, hist, snap>>
     /\ UNCHANGED <<etcd, crashes, up, view, watchq, shards, imp, wt, mc, st, getc, snap>>

\* The write of version v reaches node n.
Mutate(n, k, op) ==
  LET s == ShardForKey(view[n], k)
      sh == shards[n][s]
      v == ver + 1
      e == IF op = "Put" THEN v ELSE 0 - v
      ok == CanRef(sh)
      base == [NoRsp EXCEPT !.op = op, !.node = n, !.key = k,
                            !.atMaster = (MasterOf(k) = n),
                            !.wrong = WrongShard(view[n], n, s),
                            !.held = (sh # NoShard),
                            !.draining = (sh # NoShard /\ sh.draining)]
  IN /\ up[n]
     /\ ver < MaxWrites
     /\ IF ok
        THEN /\ db' = [db EXCEPT ![n][s].live[k] = e]
             /\ ver' = v
             /\ hist' = [hist EXCEPT ![k] =
                  [acked |-> IF op = "Put" /\ MasterOf(k) = n THEN v ELSE @.acked,
                   last |-> e, lastAtMaster |-> MasterOf(k) = n]]
             /\ rsp' = [base EXCEPT !.code = "OK", !.entry = e, !.changed = TRUE]
        ELSE /\ rsp' = [base EXCEPT !.code = "INVALID_ARGUMENT"]
             /\ UNCHANGED <<db, ver, hist, snap>>
     /\ UNCHANGED <<etcd, crashes, up, view, watchq, shards, imp, wt, mc, st, getc, snap>>

PutCall(n, k) == Mutate(n, k, "Put")
DeleteCall(n, k) == Mutate(n, k, "Delete")

\* ---- GetCall::Proceed
\* The response of a Get that is answered with the entry e.
GetRsp(g, code, e, asked) ==
  [NoRsp EXCEPT !.op = "Get", !.node = g.node, !.key = g.key, !.code = code,
                !.entry = e, !.atMaster = g.atMaster, !.wrong = g.wrong,
                !.asked = asked,
                !.floor = g.floor, !.last = g.last,
                !.lastAtMaster = g.lastAtMaster,
                !.quiet = (hist[g.key].last = g.last)]

\* A state REQUEST that does not consult WrongShard.
GetCallRequest_NoCheck(n, k) ==
  LET s == ShardForKey(view[n], k)
      sh == shards[n][s]
      g == [NoGet EXCEPT !.node = n, !.key = k, !.atMaster = (MasterOf(k) = n),
                         !.wrong = WrongShard(view[n], n, s),
                         !.floor = hist[k].acked, !.last = hist[k].last,
                         !.lastAtMaster = hist[k].lastAtMaster]
  IN /\ up[n]
     /\ getc.status = "none"
     /\ IF sh = NoShard
        THEN /\ rsp' = GetRsp(g, "INVALID_ARGUMENT", 0, FALSE)
             /\ UNCHANGED getc
        ELSE LET r == ShardGet(sh, db[n][s], k) IN
             IF r.ask
             THEN /\ getc' = [g EXCEPT !.status = "GET", !.fwd = "sent"]
                  /\ UNCHANGED rsp
             ELSE /\ rsp' = GetRsp(g, "OK", r.entry, FALSE)
                  /\ UNCHANGED getc
     /\ UNCHANGED <<etcd, crashes, up, view, watchq, shards, db, imp, wt, mc, st, ver, hist, snap>>

\* State REQUEST of a client's Get (force is not set).
GetCallRequest(n, k) ==
  LET s == ShardForKey(view[n], k)
      sh == shards[n][s]
      g == [NoGet EXCEPT !.node = n, !.key = k, !.atMaster = (MasterOf(k) = n),
                         !.wrong = WrongShard(view[n], n, s),
                         !.floor = hist[k].acked, !.last = hist[k].last,
                         !.lastAtMaster = hist[k].lastAtMaster]
  IN /\ up[n]
     /\ getc.status = "none"
     /\ IF WrongShard(view[n], n, s) \/ sh = NoShard
        THEN /\ rsp' = GetRsp(g, "INVALID_ARGUMENT", 0, FALSE)
             /\ UNCHANGED getc
        ELSE LET r == ShardGet(sh, db[n][s], k) IN
             IF r.ask
             THEN /\ getc' = [g EXCEPT !.status = "GET", !.fwd = "sent"]
                  /\ UNCHANGED rsp
             ELSE /\ rsp' = GetRsp(g, "OK", r.entry, FALSE)
                  /\ UNCHANGED getc
     /\ UNCHANGED <<etcd, crashes, up, view, watchq, shards, db, imp, wt, mc, st, ver, hist, snap>>

\* State REQUEST of the forwarded Get (force is set) on the former master:
\* WrongShard is not consulted.
GetCallForced ==
  LET n == getc.node
      s == ShardForKey(view[n], getc.key)
      address == shards[n][s].old_address
      d == NodeOfAddress(address)
  IN /\ getc.status = "GET" /\ getc.fwd = "sent"
     /\ up[n]
     /\ getc' =
          IF address = 0 \/ ~up[d]
          THEN [getc EXCEPT !.fwd = "UNAVAILABLE"]
          ELSE LET t == ShardForKey(view[d], getc.key) IN
               IF shards[d][t] = NoShard
               THEN [getc EXCEPT !.fwd = "INVALID_ARGUMENT",
                       !.fwdWrong = WrongShard(view[d], d, t)]
               ELSE [getc EXCEPT !.fwd = "OK",
                       !.entry = ShardGet(shards[d][t], db[d][t], getc.key).entry,
                       !.fwdHeld = TRUE,
                       !.fwdWrong = WrongShard(view[d], d, t),
                       !.fwdLocal = Lookup(db[d][t], getc.key)]
     /\ UNCHANGED <<etcd, crashes, up, view, watchq, shards, db, imp, wt, mc, st, ver, hist, snap, rsp>>

\* Info::Addresses, on a node's copy of ClusterInfo.
Addresses(b) == {Address(b, id) : id \in NodeIds(b)}

\* State GET: the forwarded Get completed.
GetCallGet ==
  LET n == getc.node
      k == getc.key
      s == ShardForKey(view[n], k)
      sh == shards[n][s]
      r == ShardGet(sh, db[n][s], k)
  IN /\ getc.status = "GET" /\ getc.fwd \notin {"none", "sent"}
     /\ up[n]
     /\ getc' = NoGet
     /\ IF getc.fwd = "UNAVAILABLE" /\ sh.old_address \in Addresses(view[n])
        THEN rsp' = GetRsp(getc, "UNAVAILABLE", 0, FALSE)
        ELSE IF getc.fwd # "OK"
        THEN rsp' = GetRsp(getc, IF r.ask THEN "ASSERT" ELSE "OK", r.entry, FALSE)
        ELSE rsp' = GetRsp(getc, "OK", getc.entry, TRUE)
     /\ UNCHANGED <<etcd, crashes, up, view, watchq, shards, db, imp, wt, mc, st, ver, hist, snap>>

\* ---- the life of a unary call object (PutCall, DeleteCall, GetCall)
\* The events of one call come out of one completion queue, which one
\* ServeThread reads: Proceed and OnDone of a call never run at once.
\* One call is followed at a time: the next request is taken up once the
\* object of the one before is gone.
CallFree ==
  uc.kind = "none" \/ (uc.deleted > 0 /\ uc.op = "none" /\ uc.cq = {})

\* State REQUEST of a PutCall or DeleteCall: the write, then responder_.Finish.
CallMutate(n, k, op) ==
  /\ CallFree
  /\ Mutate(n, k, op)
  /\ uc' = [NoUc EXCEPT !.kind = op, !.status = "FINISH", !.op = "finish"]

\* State REQUEST of a GetCall: responder_.Finish, or the forwarded Get.
CallGet(n, k) ==
  /\ CallFree
  /\ GetCallRequest(n, k)
  /\ uc' = IF getc'.status = "GET"
           THEN [NoUc EXCEPT !.kind = "Get", !.status = "GET", !.op = "forward"]
           ELSE [NoUc EXCEPT !.kind = "Get", !.status = "FINISH", !.op = "finish"]

\* State GET: the forwarded Get came back, responder_.Finish.
CallGetGet ==
  /\ uc.kind = "Get" /\ uc.status = "GET" /\ uc.op = "forward"
  /\ GetCallGet
  /\ uc' = [uc EXCEPT !.status = "FINISH", !.op = "finish"]

\* The client gave the call up (it cancelled it, or its deadline passed):
\* gRPC queues the done notification, once.
CallCancel ==
  /\ uc.kind # "none" /\ ~uc.done /\ uc.deleted = 0
  /\ uc' = [uc EXCEPT !.done = TRUE, !.cq = @ \cup {"on_done"}]
  /\ UNCHANGED <<etcd, crashes, nodeVars>>

\* responder_.Finish completed: its tag is queued, and so is the done
\* notification unless it was queued before.
CallFinished ==
  /\ uc.op = "finish"
  /\ uc' = [uc EXCEPT !.op = "none", !.done = TRUE,
                      !.cq = @ \cup {"proceed"} \cup
                             (IF uc.done THEN {} ELSE {"on_done"})]
  /\ UNCHANGED <<etcd, crashes, nodeVars>>

\* Proceed in state FINISH: for the tag of Finish or, when OnDone ran while
\* the Get was forwarded, for the tag of the forwarded Get.
CallProceedFinish ==
  LET forwarded == uc.op = "forward" /\ getc.fwd \notin {"none", "sent"} IN
  /\ uc.status = "FINISH"
  /\ "proceed" \in uc.cq \/ forwarded
  /\ uc' = [uc EXCEPT !.cq = @ \ {"proceed"},
                      !.op = IF "proceed" \in uc.cq THEN @ ELSE "none",
                      !.finish_called = TRUE,
                      !.deleted = IF uc.on_done_called THEN @ + 1 ELSE @]
  /\ getc' = IF "proceed" \in uc.cq THEN getc ELSE NoGet
  /\ UNCHANGED <<etcd, crashes, up, view, watchq, shards, db, imp, wt, mc, st, ver, hist, snap, rsp>>

\* An OnDone that releases the call whether or not Finish was processed.
CallOnDone_Delete ==
  /\ "on_done" \in uc.cq
  /\ uc' = [uc EXCEPT !.cq = @ \ {"on_done"}, !.on_done_called = TRUE,
                      !.deleted = @ + 1]
  /\ UNCHANGED <<etcd, crashes, nodeVars>>

\* OnDone: delete this if finish_called_, else status_ = FINISH.
CallOnDone ==
  /\ "on_done" \in uc.cq
  /\ uc' = [uc EXCEPT !.cq = @ \ {"on_done"}, !.on_done_called = TRUE,
                      !.deleted = IF uc.finish_called THEN @ + 1 ELSE @,
                      !.status = IF uc.finish_called THEN @ ELSE "FINISH"]
  /\ UNCHANGED <<etcd, crashes, nodeVars>>

\* ---- what the coordinator sees of a node's writes
\* The node's CAS loops succeeded with these values, in this order: etcd holds
\* the last, every watcher is sent each, the node's info_ is the last.
Written(n, news) ==
  /\ etcd' = IF news = <<>> THEN etcd ELSE news[Len(news)]
  /\ watchq' = [m \in Nodes |-> IF up[m] THEN watchq[m] \o news ELSE watchq[m]]
  /\ view' = [view EXCEPT ![n] = IF news = <<>> THEN etcd ELSE news[Len(news)]]

\* Info::SetAvailable as one successful pass: nothing is written when the
\* flag already has the value.
SetAvailableNews(b, id, available) ==
  IF IsAvailable(b, id) = available THEN <<>>
  ELSE <<SetAvailableW(b, id, available)>>

\* ---- ShardMigrator / ShardImporter (migrate_util)
RECURSIVE SortedKeys(_)
SortedKeys(ks) ==
  IF ks = {} THEN <<>>
  ELSE LET k == CHOOSE x \in ks : \A y \in ks : x <= y
       IN <<k>> \o SortedKeys(ks \ {k})

\* The snapshot iterator of DumpShard sees the values, not the tombstones.
Snapshot(cf) == [k \in Keys |-> IF Lookup(cf, k) > 0 THEN Lookup(cf, k) ELSE 0]

\* The SST files of a snapshot: SstKeys keys each, in key order.
SstFiles(image) ==
  LET ks == SortedKeys({k \in Keys : image[k] # 0})
      n == (Len(ks) + SstKeys - 1) \div SstKeys
  IN [i \in 1 .. n |->
       LET part == {ks[j] : j \in {j \in 1 .. Len(ks) :
                        (i - 1) * SstKeys < j /\ j <= i * SstKeys}}
       IN [type |-> "sst",
           kv |-> [k \in Keys |-> IF k \in part THEN image[k] ELSE 0],
           largest_key |-> CHOOSE x \in part : \A y \in part : y <= x]]

\* ShardMigrator::DumpShard and ReadChunk: the messages of the dump, the SST
\* files from start_from on and the message marked finished.
DumpShard(cf, start_from) ==
  LET files == SstFiles(Snapshot(cf))
  IN (IF start_from >= Len(files) THEN <<>>
      ELSE SubSeq(files, start_from + 1, Len(files)))
     \o <<[type |-> "finished", kv |-> EmptyLevel, largest_key |-> 0]>>

Ack == [type |-> "ack", kv |-> EmptyLevel, largest_key |-> 0]

\* Shard::Ingest: the file goes below the existing data.
Ingest(cf, kv) ==
  [cf EXCEPT !.behind = [k \in Keys |-> IF kv[k] # 0 THEN kv[k] ELSE @[k]]]

\* ---- MigrateCall::Proceed, MigrateCall::OnDone (the donor)
\* The recipient whose stream carries a request the donor has not read.
Requesting(d) ==
  {r \in Nodes : st[r].open /\ st[r].donor = d /\ st[r].req # <<>>}

\* A donor that acknowledges the request without calling GiveShard.
MigrateCallRead_NoGive(d, r) ==
  LET q == st[r].req[1]
      s == q.shard
      sh == shards[d][s]
  IN /\ up[d]
     /\ mc[d].status = "none"
     /\ r \in Requesting(d)
     /\ IF sh = NoShard
        THEN /\ mc' = [mc EXCEPT ![d] = [NoCall EXCEPT !.status = "FINISH",
                          !.shard = s, !.peer = r]]
             /\ st' = [st EXCEPT ![r].req = Tail(@), ![r].status = "INVALID_ARGUMENT"]
             /\ UNCHANGED <<etcd, watchq, view, shards>>
        ELSE /\ mc' = [mc EXCEPT ![d] = [NoCall EXCEPT !.status = "READ",
                          !.shard = s, !.start_from = q.start_from,
                          !.retval = ~sh.draining, !.peer = r]]
             /\ shards' = [shards EXCEPT ![d][s].draining = TRUE]
             /\ Written(d, <<>>)
             /\ st' = [st EXCEPT ![r].req = Tail(@), ![r].resp = Append(@, Ack)]
     /\ UNCHANGED <<crashes, up, db, imp, wt, getc, ver, hist, snap, rsp>>

\* State READ up to the acknowledgement: Unref(true), GiveShard, Write.
MigrateCallRead(d, r) ==
  LET q == st[r].req[1]
      s == q.shard
      sh == shards[d][s]
  IN /\ up[d]
     /\ mc[d].status = "none"
     /\ r \in Requesting(d)
     /\ IF sh = NoShard
        THEN /\ mc' = [mc EXCEPT ![d] = [NoCall EXCEPT !.status = "FINISH",
                          !.shard = s, !.peer = r]]
             /\ st' = [st EXCEPT ![r].req = Tail(@), ![r].status = "INVALID_ARGUMENT"]
             /\ UNCHANGED <<etcd, watchq, view, shards>>
        ELSE /\ mc' = [mc EXCEPT ![d] = [NoCall EXCEPT !.status = "READ",
                          !.shard = s, !.start_from = q.start_from,
                          !.retval = ~sh.draining, !.peer = r]]
             /\ shards' = [shards EXCEPT ![d][s].draining = TRUE]
             /\ Written(d, <<GiveShardW(etcd, d, s)>>)
             /\ st' = [st EXCEPT ![r].req = Tail(@), ![r].resp = Append(@, Ack)]
     /\ UNCHANGED <<crashes, up, db, imp, wt, getc, ver, hist, snap, rsp>>

\* ---- Info::GiveShard statement by statement
\* The handler's thread and the WatchThread both use the node's info_
\* (view); between two statements of GiveShard the WatchThread may parse a
\* watch event into it.  The positions of the handler: "get" after Get(),
\* "old" after old_info = info_.Serialize(), "give" after info_.GiveShard.
\* State READ up to Get(): the request is read, Unref(true), Info::Get.
GiveGet(d, r) ==
  LET q == st[r].req[1]
      s == q.shard
      sh == shards[d][s]
  IN /\ up[d]
     /\ mc[d].status = "none"
     /\ r \in Requesting(d)
     /\ IF sh = NoShard
        THEN /\ mc' = [mc EXCEPT ![d] = [NoCall EXCEPT !.status = "FINISH",
                          !.shard = s, !.peer = r]]
             /\ st' = [st EXCEPT ![r].req = Tail(@), ![r].status = "INVALID_ARGUMENT"]
             /\ UNCHANGED <<view, shards>>
        ELSE /\ mc' = [mc EXCEPT ![d] = [NoCall EXCEPT !.status = "get",
                          !.shard = s, !.start_from = q.start_from,
                          !.retval = ~sh.draining, !.peer = r]]
             /\ shards' = [shards EXCEPT ![d][s].draining = TRUE]
             /\ view' = [view EXCEPT ![d] = etcd]
             /\ st' = [st EXCEPT ![r].req = Tail(@)]
     /\ UNCHANGED <<etcd, watchq, crashes, up, db, imp, wt, getc, ver, hist, snap, rsp>>

\* std::string old_info = info_.Serialize();
GiveOld(d) ==
  /\ up[d]
  /\ mc[d].status = "get"
  /\ mc' = [mc EXCEPT ![d].status = "old", ![d].old_info = view[d]]
  /\ UNCHANGED <<etcd, crashes, up, view, watchq, shards, db, imp, wt, st, getc, ver, hist, snap, rsp>>

\* info_.GiveShard(id_, shard);
GiveMutate(d) ==
  /\ up[d]
  /\ mc[d].status = "old"
  /\ view' = [view EXCEPT ![d] = GiveShardW(@, d, mc[d].shard)]
  /\ mc' = [mc EXCEPT ![d].status = "give"]
  /\ UNCHANGED <<etcd, crashes, up, watchq, shards, db, imp, wt, st, getc, ver, hist, snap, rsp>>

\* TxnPutIfValueEquals(kInfoKey, info_.Serialize(), old_info): on success the
\* acknowledgement is written on the stream, otherwise Get() again.
GiveTxn(d) ==
  /\ up[d]
  /\ mc[d].status = "give"
  /\ IF etcd = mc[d].old_info
     THEN /\ etcd' = view[d]
          /\ watchq' = [m \in Nodes |->
                          IF up[m] THEN Append(watchq[m], view[d]) ELSE watchq[m]]
          /\ mc' = [mc EXCEPT ![d].status = "READ", ![d].old_info = NoInfo]
          /\ st' = [st EXCEPT ![mc[d].peer].resp = Append(@, Ack)]
          /\ UNCHANGED view
     ELSE /\ view' = [view EXCEPT ![d] = etcd]
          /\ mc' = [mc EXCEPT ![d].status = "get", ![d].old_info = NoInfo]
          /\ UNCHANGED <<etcd, watchq, st>>
  /\ UNCHANGED <<crashes, up, shards, db, imp, wt, getc, ver, hist, snap, rsp>>

\* State READ, the rest: WaitRefs (when Unref(true) returned true), DumpShard.
MigrateCallDump(d) ==
  LET s == mc[d].shard
      sh == shards[d][s]
  IN /\ up[d]
     /\ mc[d].status = "READ"
     /\ mc[d].retval => sh.refs = 0
     /\ mc' = [mc EXCEPT ![d].status = "WRITE",
                         ![d].out = DumpShard(db[d][s], mc[d].start_from)]
     /\ snap' = [snap EXCEPT ![s] = Snapshot(db[d][s])]
     /\ UNCHANGED <<etcd, crashes, up, view, watchq, shards, db, imp, wt, st, getc, ver, hist, rsp>>

\* State WRITE: the next chunk, or the Read of the terminating request.
MigrateCallWrite(d) ==
  LET r == mc[d].peer IN
  /\ up[d]
  /\ mc[d].status = "WRITE"
  /\ IF mc[d].out # <<>>
     THEN /\ mc' = [mc EXCEPT ![d].out = Tail(@)]
          /\ st' = IF mc[d].cancelled THEN st
                   ELSE [st EXCEPT ![r].resp = Append(@, mc[d].out[1])]
     ELSE /\ mc' = [mc EXCEPT ![d].status = "DONE"]
          /\ UNCHANGED st
  /\ UNCHANGED <<etcd, crashes, up, view, watchq, shards, db, imp, wt, getc, ver, hist, snap, rsp>>

\* A state DONE that finishes the call without the terminating request.
MigrateCallDone_Early(d) ==
  LET r == mc[d].peer IN
  /\ up[d]
  /\ mc[d].status = "DONE"
  /\ mc' = [mc EXCEPT ![d].status = "FINISH",
                      ![d].term = ~mc[d].cancelled /\ st[r].req # <<>>]
  /\ st' = IF mc[d].cancelled THEN st
           ELSE [st EXCEPT ![r].req = IF @ = <<>> THEN @ ELSE Tail(@),
                           ![r].status = "OK"]
  /\ UNCHANGED <<etcd, crashes, up, view, watchq, shards, db, imp, wt, getc, ver, hist, snap, rsp>>

\* State DONE: the Read completed (a request, or the stream is gone); term
\* records that it returned the recipient's terminating request.
MigrateCallDone(d) ==
  LET r == mc[d].peer IN
  /\ up[d]
  /\ mc[d].status = "DONE"
  /\ mc[d].cancelled \/ st[r].req # <<>>
  /\ mc' = [mc EXCEPT ![d].status = "FINISH", ![d].term = ~mc[d].cancelled]
  /\ st' = IF mc[d].cancelled THEN st
           ELSE [st EXCEPT ![r].req = Tail(@), ![r].status = "OK"]
  /\ UNCHANGED <<etcd, crashes, up, view, watchq, shards, db, imp, wt, getc, ver, hist, snap, rsp>>

\* State FINISH: the call is released once OnDone ran too.
MigrateCallFinish(d) ==
  /\ up[d]
  /\ mc[d].status = "FINISH"
  /\ ~mc[d].finish_called
  /\ mc' = [mc EXCEPT ![d] = IF @.on_done_called THEN NoCall
                             ELSE [@ EXCEPT !.finish_called = TRUE]]
  /\ UNCHANGED <<etcd, crashes, up, view, watchq, shards, db, imp, wt, st, getc, ver, hist, snap, rsp>>

\* The node's registry holds no shard.
Empty(reg) == \A s \in DOMAIN reg : reg[s] = NoShard

\* An OnDone that removes the shard of a cancelled call too.
MigrateCallOnDone_Drop(d) ==
  LET c == mc[d]
      s == c.shard
      reg == [shards[d] EXCEPT ![s] = NoShard]
      n1 == IF c.cancelled THEN SetAvailableNews(etcd, c.peer, FALSE) ELSE <<>>
      b1 == IF n1 = <<>> THEN etcd ELSE n1[1]
      n2 == IF Empty(reg) THEN <<RemoveNode(b1, d)>> ELSE <<>>
  IN /\ up[d]
     /\ c.status \notin {"none", "READ"} /\ ~c.on_done_called
     /\ c.cancelled \/ c.status = "FINISH"
     /\ shards' = [shards EXCEPT ![d] = reg]
     /\ db' = [db EXCEPT ![d][s] = NoCF]
     /\ IF c.cancelled \/ Empty(reg)
        THEN Written(d, n1 \o n2)
        ELSE UNCHANGED <<etcd, watchq, view>>
     /\ IF Empty(reg)
        THEN /\ up' = [up EXCEPT ![d] = FALSE]           \* shutdown
             /\ mc' = [mc EXCEPT ![d] = NoCall]
             /\ wt' = [wt EXCEPT ![d] = NoWatch]
        ELSE /\ mc' = [mc EXCEPT ![d] =
                  IF c.finish_called THEN NoCall
                  ELSE [c EXCEPT !.on_done_called = TRUE, !.status = "FINISH"]]
             /\ UNCHANGED <<up, wt>>
     /\ UNCHANGED <<crashes, imp, st, getc, ver, hist, snap, rsp>>

\* An OnDone that removes the node whatever its registry still holds.
MigrateCallOnDone_Leave(d) ==
  LET c == mc[d]
      s == c.shard
      reg == IF c.cancelled THEN shards[d] ELSE [shards[d] EXCEPT ![s] = NoShard]
      n1 == IF c.cancelled THEN SetAvailableNews(etcd, c.peer, FALSE) ELSE <<>>
      b1 == IF n1 = <<>> THEN etcd ELSE n1[1]
      n2 == <<RemoveNode(b1, d)>>
  IN /\ up[d]
     /\ c.status \notin {"none", "READ"} /\ ~c.on_done_called
     /\ c.cancelled \/ c.status = "FINISH"
     /\ shards' = [shards EXCEPT ![d] = reg]
     /\ db' = IF c.cancelled THEN db ELSE [db EXCEPT ![d][s] = NoCF]
     /\ Written(d, n1 \o n2)
     /\ up' = [up EXCEPT ![d] = FALSE]
     /\ mc' = [mc EXCEPT ![d] = NoCall]
     /\ wt' = [wt EXCEPT ![d] = NoWatch]
     /\ UNCHANGED <<crashes, imp, st, getc, ver, hist, snap, rsp>>

\* MigrateCall::OnDone: the call is over, finished by the donor or cancelled.
\* It runs on the thread of migrate_cq_, hence not while that thread is in
\* state READ between the acknowledgement and DumpShard.
MigrateCallOnDone(d) ==
  LET c == mc[d]
      s == c.shard
      reg == IF c.cancelled THEN shards[d] ELSE [shards[d] EXCEPT ![s] = NoShard]
      n1 == IF c.cancelled THEN SetAvailableNews(etcd, c.peer, FALSE) ELSE <<>>
      b1 == IF n1 = <<>> THEN etcd ELSE n1[1]
      n2 == IF Empty(reg) THEN <<RemoveNode(b1, d)>> ELSE <<>>
  IN /\ up[d]
     /\ c.status \notin {"none", "READ"} /\ ~c.on_done_called
     /\ c.cancelled \/ c.status = "FINISH"
     /\ shards' = [shards EXCEPT ![d] = reg]
     /\ db' = IF c.cancelled THEN db ELSE [db EXCEPT ![d][s] = NoCF]
     /\ IF c.cancelled \/ Empty(reg)
        THEN Written(d, n1 \o n2)
        ELSE UNCHANGED <<etcd, watchq, view>>
     /\ IF Empty(reg)
        THEN /\ up' = [up EXCEPT ![d] = FALSE]           \* shutdown
             /\ mc' = [mc EXCEPT ![d] = NoCall]
             /\ wt' = [wt EXCEPT ![d] = NoWatch]
        ELSE /\ mc' = [mc EXCEPT ![d] =
                  IF c.finish_called THEN NoCall
                  ELSE [c EXCEPT !.on_done_called = TRUE, !.status = "FINISH"]]
             /\ UNCHANGED <<up, wt>>
     /\ UNCHANGED <<crashes, imp, st, getc, ver, hist, snap, rsp>>

\* ---- AsyncServer::WatchThread, MigrationOver, HandleError (the recipient)
RECURSIVE SortedTasks(_)
SortedTasks(ts) ==
  IF ts = {} THEN <<>>
  ELSE LET t == CHOOSE x \in ts : \A y \in ts :
                  x[1] < y[1] \/ (x[1] = y[1] /\ x[2] <= y[2])
       IN <<t>> \o SortedTasks(ts \ {t})

\* The WatchThread is in the for loop while shards are left (pc "next"), and
\* in while (!info_.WatchNext(call_)) otherwise (pc "watch").
Loop(w) == [w EXCEPT !.pc = IF w.todo = <<>> THEN "watch" ELSE "next"]

\* The top of the do loop: the for loop runs over one value of info_.Tasks().
StartTasks(b, n) ==
  Loop([NoWatch EXCEPT !.todo = SortedTasks(Tasks(b, n))])

\* A WatchThread that requests the shard without adding it to its registry.
WatchRequest_NoAdd(n) ==
  LET w == wt[n]
      d == w.todo[1][1]
      s == w.todo[1][2]
      rest == [w EXCEPT !.todo = Tail(@)]
  IN /\ up[n]
     /\ w.pc = "next"
     /\ w.todo # <<>>
     /\ IF ~IsAvailable(view[n], d)
        THEN /\ wt' = [wt EXCEPT ![n] = Loop(rest)]
             /\ UNCHANGED <<etcd, watchq, view, shards, db, st>>
        ELSE /\ UNCHANGED <<shards, db>>
             /\ IF up[d]
                THEN /\ st' = [st EXCEPT ![n] = [NoStream EXCEPT !.open = TRUE,
                                 !.donor = d,
                                 !.req = <<[shard |-> s, start_from |-> imp[n][s].num]>>]]
                     /\ wt' = [wt EXCEPT ![n] = [rest EXCEPT !.pc = "ack",
                                                   !.shard = s, !.donor = d]]
                     /\ UNCHANGED <<etcd, watchq, view>>
                ELSE /\ Written(n, SetAvailableNews(etcd, d, FALSE))  \* HandleError
                     /\ wt' = [wt EXCEPT ![n] = Loop(rest)]
                     /\ UNCHANGED st
     /\ UNCHANGED <<crashes, up, imp, mc, getc, ver, hist, snap, rsp>>

\* The next shard of the for loop, up to the first Write on the stream.
WatchRequest(n) ==
  LET w == wt[n]
      d == w.todo[1][1]
      s == w.todo[1][2]
      rest == [w EXCEPT !.todo = Tail(@)]
  IN /\ up[n]
     /\ w.pc = "next"
     /\ w.todo # <<>>
     /\ IF ~IsAvailable(view[n], d)
        THEN /\ wt' = [wt EXCEPT ![n] = Loop(rest)]
             /\ UNCHANGED <<etcd, watchq, view, shards, db, st>>
        ELSE /\ IF WrongShard(view[n], n, s) /\ shards[n][s] = NoShard
                THEN /\ shards' = [shards EXCEPT ![n][s] =
                                     NewShard(TRUE, Address(view[n], d), 0)]
                     /\ db' = [db EXCEPT ![n][s] = NewCF]
                ELSE UNCHANGED <<shards, db>>
             /\ IF up[d]
                THEN /\ st' = [st EXCEPT ![n] = [NoStream EXCEPT !.open = TRUE,
                                 !.donor = d,
                                 !.req = <<[shard |-> s, start_from |-> imp[n][s].num]>>]]
                     /\ wt' = [wt EXCEPT ![n] = [rest EXCEPT !.pc = "ack",
                                                   !.shard = s, !.donor = d]]
                     /\ UNCHANGED <<etcd, watchq, view>>
                ELSE /\ Written(n, SetAvailableNews(etcd, d, FALSE))  \* HandleError
                     /\ wt' = [wt EXCEPT ![n] = Loop(rest)]
                     /\ UNCHANGED st
     /\ UNCHANGED <<crashes, up, imp, mc, getc, ver, hist, snap, rsp>>

\* A MigrationOver that clears the importer's state and waits, without
\* having published the end of the migration.
AnnounceOver_Silent(n, s, setimp) ==
  /\ Written(n, <<>>)
  /\ imp' = [imp EXCEPT ![n][s] = NoImport]
  /\ wt' = [wt EXCEPT ![n].pc = "over", ![n].shard = s, ![n].setimp = setimp]
  /\ st' = [st EXCEPT ![n] = NoStream]
\* Info::MigrationOver and ShardImporter::ClearState, the first half of
\* AsyncServer::MigrationOver.
AnnounceOver(n, s, setimp) ==
  /\ Written(n, <<MigrationOverW(etcd, s)>>)
  /\ imp' = [imp EXCEPT ![n][s] = NoImport]
  /\ wt' = [wt EXCEPT ![n].pc = "over", ![n].shard = s, ![n].setimp = setimp]
  /\ st' = [st EXCEPT ![n] = NoStream]

\* HandleError(UNAVAILABLE) and continue.
GiveUp(n) ==
  /\ Written(n, SetAvailableNews(etcd, wt[n].donor, FALSE))
  /\ wt' = [wt EXCEPT ![n] = Loop(@)]
  /\ st' = [st EXCEPT ![n] = NoStream]
  /\ UNCHANGED imp

\* The first Read: the donor's acknowledgement.
WatchAck(n) ==
  /\ up[n]
  /\ wt[n].pc = "ack"
  /\ st[n].resp # <<>> \/ st[n].status # "none"
  /\ IF st[n].resp # <<>>
     THEN /\ st' = [st EXCEPT ![n].resp = Tail(@)]
          /\ wt' = [wt EXCEPT ![n].pc = "master"]
          /\ UNCHANGED <<etcd, watchq, view, imp>>
     ELSE IF st[n].status = "INVALID_ARGUMENT"
     THEN AnnounceOver(n, wt[n].shard, FALSE)
     ELSE GiveUp(n)
  /\ UNCHANGED <<crashes, up, shards, db, mc, getc, ver, hist, snap, rsp>>

\* while (IndexForShard(shard_id) != id) WatchNext.
WatchMaster(n) ==
  /\ up[n]
  /\ wt[n].pc = "master"
  /\ IF ~WrongShard(view[n], n, wt[n].shard)
     THEN /\ wt' = [wt EXCEPT ![n].pc = "recv"]
          /\ UNCHANGED <<view, watchq>>
     ELSE /\ watchq[n] # <<>>
          /\ view' = [view EXCEPT ![n] = Head(watchq[n])]
          /\ watchq' = [watchq EXCEPT ![n] = Tail(@)]
          /\ UNCHANGED wt
  /\ UNCHANGED <<etcd, crashes, up, shards, db, imp, mc, st, getc, ver, hist, snap, rsp>>

\* The reads of the dump: WriteChunk and Ingest for a file, the end of the loop
\* for the message marked finished, HandleError when the stream broke.
WatchRecv(n) ==
  LET s == wt[n].shard
      m == st[n].resp[1]
  IN /\ up[n]
     /\ wt[n].pc = "recv"
     /\ st[n].resp # <<>> \/ st[n].status # "none"
     /\ IF st[n].resp = <<>>
        THEN /\ GiveUp(n)
             /\ UNCHANGED <<shards, db>>
        ELSE /\ st' = [st EXCEPT ![n].resp = Tail(@)]
             /\ UNCHANGED <<etcd, watchq, view>>
             /\ IF m.type = "finished"
                THEN /\ wt' = [wt EXCEPT ![n].pc = "finish"]
                     /\ UNCHANGED <<shards, db, imp>>
                ELSE /\ db' = [db EXCEPT ![n][s] = Ingest(@, m.kv)]
                     /\ shards' = [shards EXCEPT ![n][s].largest_key = m.largest_key]
                     /\ imp' = [imp EXCEPT ![n][s] =
                                  [num |-> @.num + 1, largest_key |-> m.largest_key]]
                     /\ UNCHANGED wt
     /\ UNCHANGED <<crashes, up, mc, getc, ver, hist, snap, rsp>>

\* stream->Write(request) after the loop; nothing is sent on a stream that
\* broke (the result of Write is not looked at, Finish tells).
WatchFinish(n) ==
  /\ up[n]
  /\ wt[n].pc = "finish"
  /\ st' = IF st[n].status # "none" THEN st
           ELSE [st EXCEPT ![n].req = Append(@, [shard |-> wt[n].shard, start_from |-> 0])]
  /\ fin' = IF st[n].status # "none" THEN fin
            ELSE [fin EXCEPT ![n] = @ \cup {wt[n].shard}]
  /\ wt' = [wt EXCEPT ![n].pc = "status"]
  /\ UNCHANGED <<etcd, crashes, up, view, watchq, shards, db, imp, mc, getc, ver, hist, snap, rsp>>

\* stream->Finish() returned.
WatchStatus(n) ==
  /\ up[n]
  /\ wt[n].pc = "status"
  /\ st[n].status # "none"
  /\ IF st[n].status = "OK"
     THEN AnnounceOver(n, wt[n].shard, TRUE)
     ELSE GiveUp(n)
  /\ UNCHANGED <<crashes, up, shards, db, mc, getc, ver, hist, snap, rsp>>

\* do WatchNext while (IsMigrating(shard_id)); then set_importing(false) where
\* the caller does it.
WatchOver(n) ==
  LET s == wt[n].shard
      new == Head(watchq[n])
  IN /\ up[n]
     /\ wt[n].pc = "over"
     /\ watchq[n] # <<>>
     /\ view' = [view EXCEPT ![n] = new]
     /\ watchq' = [watchq EXCEPT ![n] = Tail(@)]
     /\ IF IsMigratingShard(new, s)
        THEN UNCHANGED <<wt, shards>>
        ELSE /\ wt' = [wt EXCEPT ![n] = Loop(@)]
             /\ shards' = IF wt[n].setimp
                          THEN [shards EXCEPT ![n][s].importing = FALSE]
                          ELSE shards
     /\ UNCHANGED <<etcd, crashes, up, db, imp, mc, st, getc, ver, hist, snap, rsp>>

\* while (!info_.WatchNext(call_)): the next event, then the tasks again.
WatchNext(n) ==
  /\ up[n]
  /\ wt[n].pc = "watch"
  /\ watchq[n] # <<>>
  /\ view' = [view EXCEPT ![n] = Head(watchq[n])]
  /\ watchq' = [watchq EXCEPT ![n] = Tail(@)]
  /\ wt' = [wt EXCEPT ![n] = StartTasks(Head(watchq[n]), n)]
  /\ UNCHANGED <<etcd, crashes, up, shards, db, imp, mc, st, getc, ver, hist, snap, rsp>>

\* ---- the operator: Info::Migrate from the command line
OperatorMigrate ==
  LET new == RedistributeShards(etcd) IN
  /\ IsRunning(etcd)
  /\ ~NoMigrations(new)
  /\ Publish(SetMigrating(new))
  /\ UNCHANGED <<crashes, up, view, shards, db, imp, wt, mc, st, getc, ver, hist, snap, rsp>>

\* The operator's remove: Info::Remove(id) from the command line, which
\* asserts that the cluster is RUNNING and flags the node.
OperatorRemove(id) ==
  /\ IsRunning(etcd)
  /\ id \in NodeIds(etcd)
  /\ ~IsRemoved(etcd, id)
  /\ Publish(MarkRemoveNode(etcd, id))
  /\ UNCHANGED <<crashes, up, view, shards, db, imp, wt, mc, st, getc, ver, hist, snap, rsp>>

\* ---- the client library (ClusterImpl::Operation)
\* The client found the node unreachable: Info::SetAvailable(id, false).
ClientSetAvailable(n) ==
  /\ ~up[n]
  /\ Address(etcd, n) # 0
  /\ IsAvailable(etcd, n)
  /\ Publish(SetAvailableW(etcd, n, FALSE))
  /\ UNCHANGED <<crashes, up, view, shards, db, imp, wt, mc, st, getc, ver, hist, snap, rsp>>

\* ---- the server process: a crash, and AsyncServer::Init + Run afterwards
Crash(n) ==
  /\ up[n]
  /\ crashes < MaxCrashes
  /\ crashes' = crashes + 1
  /\ up' = [up EXCEPT ![n] = FALSE]
  /\ view' = [view EXCEPT ![n] = NoInfo]
  /\ watchq' = [watchq EXCEPT ![n] = <<>>]
  /\ shards' = [shards EXCEPT ![n] = [s \in DOMAIN @ |-> NoShard]]
  /\ wt' = [wt EXCEPT ![n] = NoWatch]
  /\ mc' = [d \in Nodes |->
              IF d = n THEN NoCall
              ELSE IF mc[d].peer = n /\ mc[d].status \notin {"none", "FINISH"}
              THEN [mc[d] EXCEPT !.cancelled = TRUE]
              ELSE mc[d]]
  /\ st' = [r \in Nodes |->
              IF r = n THEN NoStream
              ELSE IF st[r].open /\ st[r].donor = n /\ st[r].status = "none"
              THEN [st[r] EXCEPT !.status = "UNAVAILABLE", !.req = <<>>]
              ELSE st[r]]
  /\ UNCHANGED <<etcd, db, imp, getc, ver, hist, snap, rsp>>

\* Init: Info::Add finds the address (the slot must be unavailable), the
\* registry is rebuilt from the column families, Watch, the shards of
\* Tasks() are importing again.  Run: SetAvailable(id, true).
Restart(n) ==
  LET b == SetAvailableW(etcd, n, TRUE)
      mine == {t[2] : t \in Tasks(etcd, n)}
  IN /\ ~up[n]
     /\ n \in NodeIds(etcd)
     /\ Address(etcd, n) = AddressOf(n)
     /\ ~IsAvailable(etcd, n)
     /\ up' = [up EXCEPT ![n] = TRUE]
     /\ etcd' = b
     /\ view' = [view EXCEPT ![n] = b]
     /\ watchq' = [m \in Nodes |->
                     IF m = n THEN <<b>>
                     ELSE IF up[m] THEN watchq[m] \o <<etcd, b>>
                     ELSE watchq[m]]
     /\ shards' = [shards EXCEPT ![n] = [s \in DOMAIN @ |->
                     IF db[n][s] = NoCF THEN NoShard
                     ELSE IF s \in mine
                     THEN NewShard(TRUE, 0, imp[n][s].largest_key)
                     ELSE NewShard(FALSE, 0, 0)]]
     /\ wt' = [wt EXCEPT ![n] = StartTasks(etcd, n)]
     /\ UNCHANGED <<crashes, db, imp, mc, st, getc, ver, hist, snap, rsp>>

\* ---- BatchCall::Proceed, BatchCall::OnDone, and the client of the stream
\* An update of batch_: the column family, the key, the entry it writes.
NoBatch == [status |-> "none", got_ref |-> {}, batch |-> <<>>, finish |-> FALSE,
            finish_called |-> FALSE, on_done_called |-> FALSE,
            in |-> <<>>, closed |-> FALSE, cancelled |-> FALSE, out |-> <<>>,
            sent |-> <<>>, before |-> <<>>, committed |-> FALSE]

\* The call is accepted (state REQUEST) and the first Read is issued.
BatchRequest ==
  /\ up[0]
  /\ bc.status = "none"
  /\ bc' = [NoBatch EXCEPT !.status = "READ", !.before = db[0]]
  /\ UNCHANGED <<etcd, crashes, proc, cl, ic, fin, uc, nodeVars>>

\* The BatchBuffers a client can send: sequences of (op, key).
Chunks ==
  UNION {[1 .. n -> {"Put", "Delete"} \X Keys] : n \in 1 .. MaxChunk}

\* The stream is open on the client's side.
Streaming == bc.status \in {"READ", "WRITE"} /\ ~bc.closed /\ ~bc.cancelled

\* The client writes a BatchBuffer on the stream.
ClientSend(c) ==
  /\ Streaming
  /\ ver + Len(c) <= 1 + MaxUpdates
  /\ ver' = ver + Len(c)
  /\ bc' = [bc EXCEPT !.in = Append(@,
              [i \in 1 .. Len(c) |->
                 [key |-> c[i][2],
                  entry |-> IF c[i][1] = "Put" THEN ver + i ELSE 0 - (ver + i)]])]
  /\ UNCHANGED <<etcd, crashes, proc, cl, ic, fin, uc, up, view, watchq, shards, db, imp, wt, mc, st, getc, hist, snap, rsp>>

\* The client half-closes the stream (WritesDone).
ClientClose ==
  /\ Streaming
  /\ bc' = [bc EXCEPT !.closed = TRUE]
  /\ UNCHANGED <<etcd, crashes, proc, cl, ic, fin, uc, nodeVars>>

\* The client cancels the call.
ClientCancel ==
  /\ Streaming
  /\ bc' = [bc EXCEPT !.cancelled = TRUE]
  /\ UNCHANGED <<etcd, crashes, proc, cl, ic, fin, uc, nodeVars>>

\* An ApplyBatchUpdate that picks the column family of the update's own key.
ApplyBatchUpdate_ByKey(batch, cf, u) ==
  Append(batch, [cf |-> ShardForKey(etcd, u.key), key |-> u.key, entry |-> u.entry])
\* ApplyBatchUpdate: the update is added to batch_ for the column family cf.
ApplyBatchUpdate(batch, cf, u) ==
  Append(batch, [cf |-> cf, key |-> u.key, entry |-> u.entry])

RECURSIVE ApplyBuffer(_, _, _)
\* for (batch_update : request_.updates()) ApplyBatchUpdate(&batch_, cf, ...)
ApplyBuffer(batch, cf, c) ==
  IF c = <<>> THEN batch
  ELSE ApplyBuffer(ApplyBatchUpdate(batch, cf, Head(c)), cf, Tail(c))

\* State READ, ok: a BatchBuffer arrived.
BatchRead ==
  LET c == Head(bc.in)
      shard_id == ShardForKey(view[0], c[1].key)
      shard == shards[0][shard_id]
      first == shard_id \notin bc.got_ref
      refused == first /\ ~CanRef(shard)
      note == [shard |-> shard_id, updates |-> c, accepted |-> ~refused]
  IN /\ up[0]
     /\ bc.status = "READ" /\ ~bc.on_done_called
     /\ bc.in # <<>> /\ ~bc.cancelled
     /\ IF refused
        THEN /\ bc' = [bc EXCEPT !.in = Tail(@), !.status = "WRITE",
                         !.out = Append(@, "INVALID_ARGUMENT"),
                         !.sent = Append(@, note)]
             /\ UNCHANGED shards
        ELSE /\ bc' = [bc EXCEPT !.in = Tail(@),
                         !.status = IF first THEN "WRITE" ELSE "READ",
                         !.out = IF first THEN Append(@, "OK") ELSE @,
                         !.got_ref = @ \cup {shard_id},
                         !.batch = ApplyBuffer(@, shard_id, c),
                         !.sent = Append(@, note)]
             /\ shards' = IF first THEN [shards EXCEPT ![0][shard_id].refs = @ + 1]
                          ELSE shards
     /\ UNCHANGED <<etcd, crashes, proc, cl, ic, fin, uc, up, view, watchq, db, imp, wt, mc, st, getc, ver, hist, snap, rsp>>

RECURSIVE WriteBatch(_, _)
\* A Write that stops after the first update of the batch.
WriteBatch_First(cfs, batch) ==
  IF batch = <<>> THEN cfs
  ELSE LET u == Head(batch) IN [cfs EXCEPT ![u.cf].live[u.key] = u.entry]
\* rocksdb::DB::Write: the updates of the batch, in order, in one step.
WriteBatch(cfs, batch) ==
  IF batch = <<>> THEN cfs
  ELSE LET u == Head(batch) IN
       WriteBatch([cfs EXCEPT ![u.cf].live[u.key] = u.entry], Tail(batch))

\* State READ, not ok: no BatchBuffer will come, the batch is written.
BatchReadEnd ==
  /\ up[0]
  /\ bc.status = "READ" /\ ~bc.on_done_called
  /\ bc.in = <<>> \/ bc.cancelled
  /\ bc.closed \/ bc.cancelled
  /\ db' = [db EXCEPT ![0] = WriteBatch(@, bc.batch)]
  /\ bc' = [bc EXCEPT !.status = "WRITE", !.finish = TRUE, !.committed = TRUE,
                      !.out = Append(@, "OK")]
  /\ UNCHANGED <<etcd, crashes, proc, cl, ic, fin, uc, up, view, watchq, shards, imp, wt, mc, st, getc, ver, hist, snap, rsp>>

\* State WRITE: the next Read, or Finish.
BatchWrite ==
  /\ up[0]
  /\ bc.status = "WRITE" /\ ~bc.on_done_called
  /\ bc' = [bc EXCEPT !.status = IF ~bc.finish /\ ~bc.cancelled THEN "READ"
                                 ELSE "FINISH"]
  /\ UNCHANGED <<etcd, crashes, proc, cl, ic, fin, uc, nodeVars>>

\* A state FINISH that leaves the references alone when OnDone ran first.
BatchFinish_Cancelled ==
  /\ up[0]
  /\ bc.status = "FINISH" /\ ~bc.finish_called
  /\ shards' = [shards EXCEPT ![0] = [s \in DOMAIN @ |->
                  IF s \in bc.got_ref /\ @[s] # NoShard /\ ~bc.on_done_called
                  THEN [@[s] EXCEPT !.refs = @ - 1] ELSE @[s]]]
  /\ bc' = [bc EXCEPT !.finish_called = TRUE,
                      !.status = IF bc.on_done_called THEN "none" ELSE @]
  /\ UNCHANGED <<etcd, crashes, proc, cl, ic, fin, uc, up, view, watchq, db, imp, wt, mc, st, getc, ver, hist, snap, rsp>>

\* State FINISH: Unref for every referenced shard, release after OnDone.
BatchFinish ==
  /\ up[0]
  /\ bc.status = "FINISH" /\ ~bc.finish_called
  /\ shards' = [shards EXCEPT ![0] = [s \in DOMAIN @ |->
                  IF s \in bc.got_ref /\ @[s] # NoShard
                  THEN [@[s] EXCEPT !.refs = @ - 1] ELSE @[s]]]
  /\ bc' = [bc EXCEPT !.finish_called = TRUE,
                      !.status = IF bc.on_done_called THEN "none" ELSE @]
  /\ UNCHANGED <<etcd, crashes, proc, cl, ic, fin, uc, up, view, watchq, db, imp, wt, mc, st, getc, ver, hist, snap, rsp>>

\* An OnDone that releases the call at once, whatever references it holds.
BatchOnDone_Delete ==
  /\ up[0]
  /\ bc.status # "none" /\ ~bc.on_done_called
  /\ bc.cancelled \/ bc.status = "FINISH"
  /\ bc' = [bc EXCEPT !.on_done_called = TRUE, !.finish_called = TRUE,
                      !.status = "none"]
  /\ UNCHANGED <<etcd, crashes, proc, cl, ic, fin, uc, nodeVars>>

\* BatchCall::OnDone: Finish went out, or the call was cancelled.
BatchOnDone ==
  /\ up[0]
  /\ bc.status # "none" /\ ~bc.on_done_called
  /\ bc.cancelled \/ bc.status = "FINISH"
  /\ bc' = [bc EXCEPT !.on_done_called = TRUE,
                      !.status = IF bc.finish_called THEN "none" ELSE "FINISH"]
  /\ UNCHANGED <<etcd, crashes, proc, cl, ic, fin, uc, nodeVars>>

\* The server is killed while the call is served.
BatchKill ==
  /\ bc.status # "none"
  /\ Crash(0)
  /\ bc' = [bc EXCEPT !.status = "none", !.in = <<>>]
  /\ UNCHANGED <<proc, cl, ic, fin, uc>>

\* ------------------------------------------- the client (ClusterImpl)
\* No ClusterImpl was constructed.  id is the local of Operation, status and
\* ping_status its two Status locals (crashed: the error message is "The
\* former master has crashed"), ret the status the last Operation returned.
\* sent, pinged and saw record, for the properties, the node the last RPC and
\* the last Ping were addressed to and the transient statuses of the call.
NoClient ==
  [pc |-> "closed", wait_on_unhealthy |-> FALSE, inform_on_unavailable |-> FALSE,
   info |-> NoInfo, key |-> 0, status |-> "none", crashed |-> FALSE, id |-> -1,
   ping_status |-> "none", ret |-> "none", sent |-> -1, pinged |-> -1, saw |-> {}]

Transient == {"UNAVAILABLE", "INVALID_ARGUMENT"}

\* Info::IndexForKey, on the client's copy of ClusterInfo.
IndexForKey(b, k) == IndexForShard(b, ShardForKey(b, k))

\* ClusterImpl::ClusterImpl: info_.Get(); info_.Run() returns at once on a
\* RUNNING or MIGRATING cluster; one connection per address.
ClOpen(wait, inform) ==
  /\ cl.pc = "closed"
  /\ IsRunning(etcd) \/ ~NoMigrations(etcd)
  /\ cl' = [cl EXCEPT !.pc = "idle", !.info = etcd, !.wait_on_unhealthy = wait,
                      !.inform_on_unavailable = inform]
  /\ UNCHANGED <<etcd, crashes, nodeVars>>

\* Operation returns status.
Return(c, status) ==
  [c EXCEPT !.pc = "idle", !.ret = status, !.key = 0, !.status = "none",
            !.crashed = FALSE, !.id = -1, !.ping_status = "none",
            !.pinged = -1, !.saw = {}]

\* status = op(NodeForKey(key)), c being the client before the call: the Get
\* is sent to the node that info_ declares master.  A server that is not
\* running answers nothing, the channel reports UNAVAILABLE.
Op(c, k) ==
  LET n == IndexForKey(c.info, k)
      d == [c EXCEPT !.key = k, !.sent = n, !.status = "none", !.crashed = FALSE]
  IN IF ~up[n]
     THEN /\ cl' = [d EXCEPT !.pc = "got", !.status = "UNAVAILABLE",
                             !.saw = @ \cup {"UNAVAILABLE"}]
          /\ UNCHANGED <<etcd, crashes, nodeVars>>
     ELSE /\ GetCallRequest(n, k)
          /\ cl' = IF getc'.status = "GET"
                   THEN [d EXCEPT !.pc = "wait"]
                   ELSE [d EXCEPT !.pc = "got", !.status = rsp'.code,
                                  !.saw = @ \cup ({rsp'.code} \cap Transient)]

\* Operation, line 144.
ClStart(k) ==
  /\ cl.pc = "idle"
  /\ Op([cl EXCEPT !.ret = "none"], k)

\* Operation, lines 154, 178 and 223: the retry.
ClRetry ==
  /\ cl.pc = "retry"
  /\ Op(cl, cl.key)

\* The answer of the Get that the master forwarded to the former master.
\* The calls of a server that was killed fail with UNAVAILABLE.
ClRecv ==
  /\ cl.pc = "wait"
  /\ IF ~up[getc.node] /\ getc.status # "none"
     THEN /\ getc' = NoGet
          /\ cl' = [cl EXCEPT !.pc = "got", !.status = "UNAVAILABLE",
                              !.saw = @ \cup {"UNAVAILABLE"}]
          /\ UNCHANGED rsp
     ELSE /\ getc.status = "none"
          /\ cl' = [cl EXCEPT !.pc = "got", !.status = rsp.code,
                              !.crashed = (rsp.code = "UNAVAILABLE"),
                              !.saw = @ \cup ({rsp.code} \cap Transient)]
          /\ UNCHANGED <<getc, rsp>>
  /\ UNCHANGED <<etcd, crashes, up, view, watchq, shards, db, imp, wt, mc, st, ver, hist, snap>>

\* A health check that returns the status whatever wait_on_unhealthy says.
AfterHealth_NoWait(c) ==
  IF ~IsHealthy(c.info) THEN Return(c, c.status) ELSE [c EXCEPT !.pc = "retry"]

\* Operation, lines 210-220 up to WaitUntilHealthy.
AfterHealth(c) ==
  IF ~IsHealthy(c.info)
  THEN IF ~c.wait_on_unhealthy
       THEN Return(c, c.status)
       ELSE [c EXCEPT !.pc = "waiting", !.id = IndexForKey(c.info, c.key)]
  ELSE [c EXCEPT !.pc = "retry"]

\* A ClGot that retries after INVALID_ARGUMENT without Update().
ClGot_NoUpdate ==
  LET id == IndexForKey(cl.info, cl.key) IN
  /\ cl.pc = "got"
  /\ cl' = IF cl.status \notin Transient
           THEN Return(cl, cl.status)
           ELSE IF cl.status = "INVALID_ARGUMENT"
           THEN [cl EXCEPT !.pc = "retry", !.id = id]
           ELSE IF cl.crashed
           THEN AfterHealth([cl EXCEPT !.id = id])
           ELSE [cl EXCEPT !.id = id, !.info = etcd,
                           !.pc = IF IndexForKey(etcd, cl.key) # id
                                  THEN "retry" ELSE "ping"]
  /\ rsp' = NoRsp                                      \* the response is consumed
  /\ UNCHANGED <<etcd, crashes, up, view, watchq, shards, db, imp, wt, mc, st, getc, ver, hist, snap>>

\* Operation, lines 145-183: the test of the loop, the return, and the
\* refresh after a transient status.
ClGot ==
  LET id == IndexForKey(cl.info, cl.key) IN
  /\ cl.pc = "got"
  /\ cl' = IF cl.status \notin Transient
           THEN Return(cl, cl.status)
           ELSE IF cl.status = "INVALID_ARGUMENT"
           THEN [cl EXCEPT !.pc = "retry", !.id = id, !.info = etcd]   \* Update()
           ELSE IF cl.crashed
           THEN AfterHealth([cl EXCEPT !.id = id])
           ELSE [cl EXCEPT !.id = id, !.info = etcd,                 \* Update()
                           !.pc = IF IndexForKey(etcd, cl.key) # id
                                  THEN "retry" ELSE "ping"]
  /\ rsp' = NoRsp                                      \* the response is consumed
  /\ UNCHANGED <<etcd, crashes, up, view, watchq, shards, db, imp, wt, mc, st, getc, ver, hist, snap>>

\* PingCall, as the client sees it.
Ping(n) == IF up[n] THEN "OK" ELSE "UNAVAILABLE"

\* Operation, lines 184-192.
ClPing ==
  LET n == IndexForKey(cl.info, cl.key)
      c == [cl EXCEPT !.ping_status = Ping(n), !.pinged = n]
  IN /\ cl.pc = "ping"
     /\ cl' = IF Ping(n) = "OK" THEN AfterHealth(c) ELSE [c EXCEPT !.pc = "loop"]
     /\ UNCHANGED <<etcd, crashes, nodeVars>>

\* A loop of case 3 that gives up after one more Ping.
ClLoop_Once ==
  /\ cl.pc = "loop"
  /\ cl' = IF IsHealthy(cl.info) /\ cl.ping_status # "OK" /\ cl.pinged = -1
           THEN [cl EXCEPT !.id = IndexForKey(cl.info, cl.key), !.info = etcd,
                           !.pc = "loop_ping"]
           ELSE AfterHealth(cl)
  /\ UNCHANGED <<etcd, crashes, nodeVars>>

\* Operation, lines 193-199: the test of the loop of case 3, and Update().
ClLoop ==
  /\ cl.pc = "loop"
  /\ cl' = IF IsHealthy(cl.info) /\ cl.ping_status # "OK"
           THEN [cl EXCEPT !.id = IndexForKey(cl.info, cl.key), !.info = etcd,
                           !.pc = "loop_ping"]
           ELSE AfterHealth(cl)
  /\ UNCHANGED <<etcd, crashes, nodeVars>>

\* Operation, lines 200-202.
ClLoopPing ==
  LET n == IndexForKey(cl.info, cl.key) IN
  /\ cl.pc = "loop_ping"
  /\ cl' = [cl EXCEPT !.ping_status = Ping(n), !.pinged = n,
                      !.pc = IF cl.inform_on_unavailable THEN "inform" ELSE "loop"]
  /\ UNCHANGED <<etcd, crashes, nodeVars>>

\* Operation, lines 203-204: info_.SetAvailable(id, false).
ClInform ==
  LET news == SetAvailableNews(etcd, cl.id, FALSE)
      new == IF news = <<>> THEN etcd ELSE news[1]
  IN /\ cl.pc = "inform"
     /\ etcd' = new
     /\ watchq' = [n \in Nodes |-> IF up[n] THEN watchq[n] \o news ELSE watchq[n]]
     /\ cl' = [cl EXCEPT !.info = new, !.pc = "loop"]
     /\ UNCHANGED <<crashes, up, view, shards, db, imp, wt, mc, st, getc, ver, hist, snap, rsp>>

\* Info::WaitUntilHealthy: Watch(), then WatchNext until info_ is healthy.
ClWait ==
  /\ cl.pc = "waiting"
  /\ IsHealthy(etcd)
  /\ cl' = [cl EXCEPT !.info = etcd, !.pc = "waited"]
  /\ UNCHANGED <<etcd, crashes, nodeVars>>

\* Operation, lines 217-219: Update() after the wait.
ClWaited ==
  /\ cl.pc = "waited"
  /\ cl' = [cl EXCEPT !.info = etcd, !.pc = "retry"]
  /\ UNCHANGED <<etcd, crashes, nodeVars>>

\* ------------------------------------------------------------ IteratorCall
\* util.cc: the number of pairs of one IteratorResponse.
kIteratorBatchSize == 10

IterKeys == 1 .. MaxIterKeys

\* The value stored under key k in SpecIter.
IterValue(k) == k + MaxIterKeys

\* The targets of SEEK and SEEK_FOR_PREV: before every key, in the middle,
\* after every key.
SeekTargets == {0, (MaxIterKeys + 1) \div 2, MaxIterKeys + 1}

\* pb::IteratorRequest
IteratorRequests ==
  [op : {"SEEK_TO_FIRST", "SEEK_TO_LAST", "NEXT", "PREV"}, target : {0}]
    \cup [op : {"SEEK", "SEEK_FOR_PREV"}, target : SeekTargets]

\* pb::IteratorResponse after Clear().
NoResponse == [kvs |-> <<>>, done |-> FALSE]

NoIter ==
  [status |-> "none", cfs |-> <<>>, it |-> <<>>, pos |-> 0,
   request |-> [op |-> "none", target |-> 0], response |-> NoResponse,
   finish_called |-> FALSE, on_done_called |-> FALSE, gone |-> FALSE,
   mode |-> "none", got |-> <<>>]

\* MultiIterator: the pairs of the column families merged in key order, as
\* they were when the iterator was made.
MultiIterator(cfs) ==
  LET all == UNION {cfs[i] : i \in DOMAIN cfs}
  IN [i \in 1 .. Cardinality(all) |->
        CHOOSE kv \in all : Cardinality({o \in all : o.key <= kv.key}) = i]

\* MultiIterator::Valid, and the position of an iterator that is not valid.
Valid(it, pos) == pos \in 1 .. Len(it)
At(it, pos) == IF Valid(it, pos) THEN pos ELSE 0

\* MultiIterator::Seek, SeekForPrev
SeekPos(it, target) ==
  LET ge == {i \in 1 .. Len(it) : it[i].key >= target}
  IN IF ge = {} THEN 0 ELSE CHOOSE i \in ge : \A j \in ge : i <= j
SeekForPrevPos(it, target) ==
  LET le == {i \in 1 .. Len(it) : it[i].key <= target}
  IN IF le = {} THEN 0 ELSE CHOOSE i \in le : \A j \in le : i >= j

Min(a, b) == IF a <= b THEN a ELSE b

\* A MakeNextBatch that reports done when the batch is not full.
MakeNextBatch_Short(it, pos) ==
  LET n == IF Valid(it, pos) THEN Min(kIteratorBatchSize, Len(it) - pos + 1) ELSE 0
  IN [kvs |-> [i \in 1 .. n |-> it[pos + i - 1]],
      pos |-> At(it, pos + n),
      done |-> n < kIteratorBatchSize]

\* MakeNextBatch: up to kIteratorBatchSize pairs from pos on, Next() after
\* each; done when the iterator is not valid afterwards.
MakeNextBatch(it, pos) ==
  LET n == IF Valid(it, pos) THEN Min(kIteratorBatchSize, Len(it) - pos + 1) ELSE 0
  IN [kvs |-> [i \in 1 .. n |-> it[pos + i - 1]],
      pos |-> At(it, pos + n),
      done |-> ~Valid(it, pos + n)]

\* MakePrevBatch: the same with Prev().
MakePrevBatch(it, pos) ==
  LET n == IF Valid(it, pos) THEN Min(kIteratorBatchSize, pos) ELSE 0
  IN [kvs |-> [i \in 1 .. n |-> it[pos - i + 1]],
      pos |-> At(it, pos - n),
      done |-> ~Valid(it, pos - n)]

ApplyIteratorRequest(it, pos, request) ==
  CASE request.op = "SEEK_TO_FIRST" -> MakeNextBatch(it, At(it, 1))
    [] request.op = "SEEK_TO_LAST" -> MakePrevBatch(it, At(it, Len(it)))
    [] request.op = "SEEK" -> MakeNextBatch(it, SeekPos(it, request.target))
    [] request.op = "SEEK_FOR_PREV" -> MakePrevBatch(it, SeekForPrevPos(it, request.target))
    [] request.op = "NEXT" -> MakeNextBatch(it, pos)
    [] request.op = "PREV" -> MakePrevBatch(it, pos)

\* What the client has of a scan: the pairs since SEEK_TO_FIRST (mode
\* "first") or SEEK_TO_LAST (mode "last") as long as only NEXT (PREV)
\* followed and no response had done set.
Scan(request, response) ==
  CASE request.op = "SEEK_TO_FIRST" -> [mode |-> "first", got |-> response.kvs]
    [] request.op = "SEEK_TO_LAST" -> [mode |-> "last", got |-> response.kvs]
    [] request.op = "NEXT" /\ ic.mode = "first" /\ ~ic.response.done ->
         [mode |-> "first", got |-> ic.got \o response.kvs]
    [] request.op = "PREV" /\ ic.mode = "last" /\ ~ic.response.done ->
         [mode |-> "last", got |-> ic.got \o response.kvs]
    [] OTHER -> [mode |-> "other", got |-> <<>>]

\* IteratorCall::Proceed, REQUEST: the stream is open, the MultiIterator is
\* made over the column families of the registry and a Read is posted.
IterRequest ==
  /\ ic.status = "REQUEST"
  /\ ic' = [ic EXCEPT !.it = MultiIterator(ic.cfs), !.pos = 0, !.status = "READ"]
  /\ UNCHANGED <<etcd, crashes, proc, bc, cl, fin, uc, nodeVars>>

\* IteratorCall::Proceed, READ with ok: a request arrived.
IterRead(request) ==
  /\ ic.status = "READ" /\ ~ic.gone
  /\ LET r == ApplyIteratorRequest(ic.it, ic.pos, request)
         c == Scan(request, r)
     IN ic' = [ic EXCEPT !.request = request,
                         !.response = [kvs |-> r.kvs, done |-> r.done],
                         !.pos = r.pos,
                         !.mode = c.mode, !.got = c.got,
                         !.status = "WRITE"]
  /\ UNCHANGED <<etcd, crashes, proc, bc, cl, fin, uc, nodeVars>>

\* IteratorCall::Proceed, READ without ok: the client closed the stream.
IterReadEnd ==
  /\ ic.status = "READ"
  /\ ic' = [ic EXCEPT !.status = "FINISH"]
  /\ UNCHANGED <<etcd, crashes, proc, bc, cl, fin, uc, nodeVars>>

\* IteratorCall::Proceed, WRITE with ok: the response went out.
IterWrite ==
  /\ ic.status = "WRITE" /\ ~ic.gone
  /\ ic' = [ic EXCEPT !.status = "READ"]
  /\ UNCHANGED <<etcd, crashes, proc, bc, cl, fin, uc, nodeVars>>

\* IteratorCall::Proceed, WRITE without ok: the client is gone.
IterWriteEnd ==
  /\ ic.status = "WRITE" /\ ic.gone
  /\ ic' = [ic EXCEPT !.status = "FINISH"]
  /\ UNCHANGED <<etcd, crashes, proc, bc, cl, fin, uc, nodeVars>>

\* The client cancels the call, or its connection breaks.
IterCancel ==
  /\ ic.status \in {"READ", "WRITE"} /\ ~ic.gone
  /\ ic' = [ic EXCEPT !.gone = TRUE]
  /\ UNCHANGED <<etcd, crashes, proc, bc, cl, fin, uc, nodeVars>>

\* IteratorCall::Proceed, FINISH
IterFinish ==
  /\ ic.status = "FINISH" /\ ~ic.finish_called
  /\ ic' = [ic EXCEPT !.finish_called = TRUE,
                      !.status = IF ic.on_done_called THEN "none" ELSE @]
  /\ UNCHANGED <<etcd, crashes, proc, bc, cl, fin, uc, nodeVars>>

\* IteratorCall::OnDone
IterOnDone ==
  /\ ic.status \in {"READ", "WRITE", "FINISH"} /\ ~ic.on_done_called
  /\ ic.gone \/ ic.status = "FINISH"
  /\ ic' = [ic EXCEPT !.on_done_called = TRUE,
                      !.status = IF ic.finish_called THEN "none" ELSE "FINISH"]
  /\ UNCHANGED <<etcd, crashes, proc, bc, cl, fin, uc, nodeVars>>

\* ------------------------------------------------------------ SpecInfo
AllShards == 0 .. NumShards - 1

\* Nothing runs on the nodes.
NodesDown ==
  /\ up = [n \in Pair |-> FALSE]
  /\ view = [n \in Nodes |-> NoInfo]
  /\ watchq = [n \in Nodes |-> <<>>]
  /\ shards = [n \in Nodes |-> [s \in AllShards |-> NoShard]]
  /\ db = [n \in Nodes |-> [s \in AllShards |-> NoCF]]
  /\ imp = [n \in Nodes |-> [s \in AllShards |-> NoImport]]
  /\ wt = [n \in Nodes |-> NoWatch]
  /\ mc = [n \in Nodes |-> NoCall]
  /\ st = [n \in Nodes |-> NoStream]
  /\ getc = NoGet
  /\ ver = 0
  /\ hist = [k \in Keys |-> [acked |-> 0, last |-> 0, lastAtMaster |-> FALSE]]
  /\ snap = [s \in AllShards |-> EmptyLevel]
  /\ rsp = NoRsp
  /\ bc = NoBatch
  /\ cl = NoClient
  /\ ic = NoIter
  /\ fin = [n \in Nodes |-> {}]
  /\ uc = NoUc

InitInfo ==
  /\ etcd = NoInfo
  /\ crashes = 0
  /\ proc = [p \in Procs |->
       [id |-> -1, pc |-> "idle", op |-> "none", args |-> <<>>,
        old |-> NoInfo, info |-> NoInfo]]
  /\ NodesDown

NextInfo ==
  \/ \E p \in Procs, num \in 1 .. MaxNewShards : InfoAdd(p, num) /\ UNCHANGED <<nodeVars, bc, cl, ic, fin, uc>>
  \/ \E p \in Procs, id \in 0 .. MaxProcs - 1 : InfoMarkRemove(p, id) /\ UNCHANGED <<nodeVars, bc, cl, ic, fin, uc>>
  \/ \E p \in Procs : InfoRemove(p) /\ UNCHANGED <<nodeVars, bc, cl, ic, fin, uc>>
  \/ \E p \in Procs : InfoRun(p) /\ UNCHANGED <<nodeVars, bc, cl, ic, fin, uc>>
  \/ \E p \in Procs : InfoOpen(p) /\ UNCHANGED <<nodeVars, bc, cl, ic, fin, uc>>
  \/ \E p \in Procs : InfoMigrate(p) /\ UNCHANGED <<nodeVars, bc, cl, ic, fin, uc>>
  \/ \E p \in Procs, s \in 0 .. MaxProcs * MaxNewShards - 1 : InfoGiveShard(p, s) /\ UNCHANGED <<nodeVars, bc, cl, ic, fin, uc>>
  \/ \E p \in Procs, s \in 0 .. MaxProcs * MaxNewShards - 1 : InfoMigrationOver(p, s) /\ UNCHANGED <<nodeVars, bc, cl, ic, fin, uc>>
  \/ \E p \in Procs, id \in 0 .. MaxProcs - 1, a \in BOOLEAN : InfoSetAvailable(p, id, a) /\ UNCHANGED <<nodeVars, bc, cl, ic, fin, uc>>
  \/ \E p \in Procs : TxnPut(p) /\ UNCHANGED <<nodeVars, bc, cl, ic, fin, uc>>
  \/ \E p \in Procs : ProcCrash(p) /\ UNCHANGED <<nodeVars, bc, cl, ic, fin, uc>>

SpecInfo == InitInfo /\ [][NextInfo]_vars

\* ---------------------------------------------------------------- Spec
\* A cluster that is RUNNING: the first node created it with NumShards shards
\* and holds them all, the second one joined later and holds none.  The keys
\* in Preloaded were put, and acknowledged, before the first step.
Running == SetRunning(AddNode(AddNodeWithNewShards(NoInfo, AddressOf(0), NumShards),
                              AddressOf(1)))

Init ==
  /\ etcd = Running
  /\ crashes = 0
  /\ proc = [p \in Procs |->
       [id |-> -1, pc |-> "idle", op |-> "none", args |-> <<>>,
        old |-> NoInfo, info |-> NoInfo]]
  /\ up = [n \in Pair |-> TRUE]
  /\ view = [n \in Nodes |-> Running]
  /\ watchq = [n \in Nodes |-> <<>>]
  /\ shards = [n \in Nodes |-> [s \in AllShards |->
                 IF n = 0 THEN NewShard(FALSE, 0, 0) ELSE NoShard]]
  /\ \E Preloaded \in {Keys} :
       /\ db = [n \in Nodes |-> [s \in AllShards |->
                  IF n # 0 THEN NoCF
                  ELSE [NewCF EXCEPT !.live = [k \in Keys |->
                          IF k \in Preloaded /\ ShardForKey(Running, k) = s
                          THEN 1 ELSE 0]]]]
       /\ hist = [k \in Keys |->
                    IF k \in Preloaded
                    THEN [acked |-> 1, last |-> 1, lastAtMaster |-> TRUE]
                    ELSE [acked |-> 0, last |-> 0, lastAtMaster |-> FALSE]]
  /\ imp = [n \in Nodes |-> [s \in AllShards |-> NoImport]]
  /\ wt = [n \in Nodes |-> StartTasks(Running, n)]
  /\ mc = [n \in Nodes |-> NoCall]
  /\ st = [n \in Nodes |-> NoStream]
  /\ getc = NoGet
  /\ ver = 1
  /\ snap = [s \in AllShards |-> EmptyLevel]
  /\ rsp = NoRsp
  /\ bc = NoBatch
  /\ cl = NoClient
  /\ ic = NoIter
  /\ fin = [n \in Nodes |-> {}]
  /\ uc = NoUc

\* The client's calls that write.
Writes ==
  \/ \E n \in Nodes, k \in Keys : PutCall(n, k) /\ UNCHANGED <<proc, bc, cl, ic, fin, uc>>
  \/ \E n \in Nodes, k \in Keys : DeleteCall(n, k) /\ UNCHANGED <<proc, bc, cl, ic, fin, uc>>

\* The client's Get, and the Get the recipient forwards to the donor.
Reads ==
  \/ \E n \in Nodes, k \in Keys : GetCallRequest(n, k) /\ UNCHANGED <<proc, bc, cl, ic, fin, uc>>
  \/ GetCallForced /\ UNCHANGED <<proc, bc, cl, ic, fin, uc>>
  \/ GetCallGet /\ UNCHANGED <<proc, bc, cl, ic, fin, uc>>

\* The migration of a shard: the operator, the donor, the recipient.
Migration ==
  \/ OperatorMigrate /\ UNCHANGED <<proc, bc, cl, ic, fin, uc>>
  \/ \E d \in Nodes, r \in Nodes : MigrateCallRead(d, r) /\ UNCHANGED <<proc, bc, cl, ic, fin, uc>>
  \/ \E d \in Nodes : MigrateCallDump(d) /\ UNCHANGED <<proc, bc, cl, ic, fin, uc>>
  \/ \E d \in Nodes : MigrateCallWrite(d) /\ UNCHANGED <<proc, bc, cl, ic, fin, uc>>
  \/ \E d \in Nodes : MigrateCallDone(d) /\ UNCHANGED <<proc, bc, cl, ic, fin, uc>>
  \/ \E d \in Nodes : MigrateCallFinish(d) /\ UNCHANGED <<proc, bc, cl, ic, fin, uc>>
  \/ \E d \in Nodes : MigrateCallOnDone(d) /\ UNCHANGED <<proc, bc, cl, ic, fin, uc>>
  \/ \E n \in Nodes : WatchRequest(n) /\ UNCHANGED <<proc, bc, cl, ic, fin, uc>>
  \/ \E n \in Nodes : WatchAck(n) /\ UNCHANGED <<proc, bc, cl, ic, fin, uc>>
  \/ \E n \in Nodes : WatchMaster(n) /\ UNCHANGED <<proc, bc, cl, ic, fin, uc>>
  \/ \E n \in Nodes : WatchRecv(n) /\ UNCHANGED <<proc, bc, cl, ic, fin, uc>>
  \/ \E n \in Nodes : WatchFinish(n) /\ UNCHANGED <<proc, bc, cl, ic, uc>>
  \/ \E n \in Nodes : WatchStatus(n) /\ UNCHANGED <<proc, bc, cl, ic, fin, uc>>
  \/ \E n \in Nodes : WatchOver(n) /\ UNCHANGED <<proc, bc, cl, ic, fin, uc>>
  \/ \E n \in Nodes : WatchNext(n) /\ UNCHANGED <<proc, bc, cl, ic, fin, uc>>

\* A server crashes, is found unreachable, is started again.
Failures ==
  \/ \E n \in Nodes : Crash(n) /\ UNCHANGED <<proc, bc, cl, ic, fin, uc>>
  \/ \E n \in Nodes : Restart(n) /\ UNCHANGED <<proc, bc, cl, ic, fin, uc>>
  \/ \E n \in Nodes : ClientSetAvailable(n) /\ UNCHANGED <<proc, bc, cl, ic, fin, uc>>

\* Spec: reads and writes while a shard migrates, no server fails.
Next == Writes \/ Reads \/ Migration

Spec == Init /\ [][Next]_vars

\* SpecCrash: writes while a shard migrates and servers fail.
NextCrash == Writes \/ Migration \/ Failures

SpecCrash == Init /\ [][NextCrash]_vars

\* SpecLive: Spec without the reads, under the scheduling of the servers: the
\* completion-queue threads and the WatchThread of a running server keep
\* taking the steps they can take, and etcd keeps delivering watch events.
\* The operator's migrate and the clients' writes are under no obligation.
\* The servers' steps but for the start of a MigrateCall.
Serving ==
  \/ \E d \in Nodes : MigrateCallDump(d) /\ UNCHANGED <<proc, bc, cl, ic, fin, uc>>
  \/ \E d \in Nodes : MigrateCallWrite(d) /\ UNCHANGED <<proc, bc, cl, ic, fin, uc>>
  \/ \E d \in Nodes : MigrateCallDone(d) /\ UNCHANGED <<proc, bc, cl, ic, fin, uc>>
  \/ \E d \in Nodes : MigrateCallFinish(d) /\ UNCHANGED <<proc, bc, cl, ic, fin, uc>>
  \/ \E d \in Nodes : MigrateCallOnDone(d) /\ UNCHANGED <<proc, bc, cl, ic, fin, uc>>
  \/ \E n \in Nodes : WatchRequest(n) /\ UNCHANGED <<proc, bc, cl, ic, fin, uc>>
  \/ \E n \in Nodes : WatchAck(n) /\ UNCHANGED <<proc, bc, cl, ic, fin, uc>>
  \/ \E n \in Nodes : WatchMaster(n) /\ UNCHANGED <<proc, bc, cl, ic, fin, uc>>
  \/ \E n \in Nodes : WatchRecv(n) /\ UNCHANGED <<proc, bc, cl, ic, fin, uc>>
  \/ \E n \in Nodes : WatchFinish(n) /\ UNCHANGED <<proc, bc, cl, ic, uc>>
  \/ \E n \in Nodes : WatchStatus(n) /\ UNCHANGED <<proc, bc, cl, ic, fin, uc>>
  \/ \E n \in Nodes : WatchOver(n) /\ UNCHANGED <<proc, bc, cl, ic, fin, uc>>
  \/ \E n \in Nodes : WatchNext(n) /\ UNCHANGED <<proc, bc, cl, ic, fin, uc>>

Servers ==
  \/ \E d \in Nodes, r \in Nodes : MigrateCallRead(d, r) /\ UNCHANGED <<proc, bc, cl, ic, fin, uc>>
  \/ Serving

NextLive ==
  \/ Writes
  \/ OperatorMigrate /\ UNCHANGED <<proc, bc, cl, ic, fin, uc>>
  \/ Servers

SpecLive == Init /\ [][NextLive]_vars /\ WF_vars(Servers)

\* SpecResume: a migration with no client traffic, during which a server is
\* killed.  The servers' threads keep running; a server that was killed is
\* found unreachable and is started again.
Recovery ==
  \/ \E n \in Nodes : Restart(n) /\ UNCHANGED <<proc, bc, cl, ic, fin, uc>>
  \/ \E n \in Nodes : ClientSetAvailable(n) /\ UNCHANGED <<proc, bc, cl, ic, fin, uc>>

NextResume ==
  \/ OperatorMigrate /\ UNCHANGED <<proc, bc, cl, ic, fin, uc>>
  \/ Servers
  \/ \E n \in Nodes : Crash(n) /\ UNCHANGED <<proc, bc, cl, ic, fin, uc>>
  \/ Recovery

SpecResume ==
  Init /\ [][NextResume]_vars /\ WF_vars(Servers) /\ WF_vars(Recovery)

\* SpecRoute: one client runs its operations while a shard migrates and no
\* server fails.  The servers' threads and the client's thread keep running;
\* nothing obliges the client to start an operation.
Routing ==
  \/ ClRetry /\ UNCHANGED <<proc, bc, ic, fin, uc>>
  \/ ClRecv /\ UNCHANGED <<proc, bc, ic, fin, uc>>
  \/ ClGot /\ UNCHANGED <<proc, bc, ic, fin, uc>>
  \/ GetCallForced /\ UNCHANGED <<proc, bc, cl, ic, fin, uc>>
  \/ GetCallGet /\ UNCHANGED <<proc, bc, cl, ic, fin, uc>>

NextRoute ==
  \/ \E wait \in BOOLEAN : ClOpen(wait, FALSE) /\ UNCHANGED <<proc, bc, ic, fin, uc>>
  \/ \E k \in Keys : ClStart(k) /\ UNCHANGED <<proc, bc, ic, fin, uc>>
  \/ Routing
  \/ OperatorMigrate /\ UNCHANGED <<proc, bc, cl, ic, fin, uc>>
  \/ Servers

SpecRoute ==
  Init /\ [][NextRoute]_vars /\ WF_vars(Servers) /\ WF_vars(Routing)

\* SpecClient: one client runs its operations while a server is killed, is
\* found unreachable (by this client or by another) and is started again.
\* The client's thread keeps running; nothing obliges a server that was
\* killed to be started again.
ClientThread ==
  \/ ClRetry /\ UNCHANGED <<proc, bc, ic, fin, uc>>
  \/ ClGot /\ UNCHANGED <<proc, bc, ic, fin, uc>>
  \/ ClPing /\ UNCHANGED <<proc, bc, ic, fin, uc>>
  \/ ClLoop /\ UNCHANGED <<proc, bc, ic, fin, uc>>
  \/ ClLoopPing /\ UNCHANGED <<proc, bc, ic, fin, uc>>
  \/ ClInform /\ UNCHANGED <<proc, bc, ic, fin, uc>>
  \/ ClWait /\ UNCHANGED <<proc, bc, ic, fin, uc>>
  \/ ClWaited /\ UNCHANGED <<proc, bc, ic, fin, uc>>

NextClient ==
  \/ \E wait \in BOOLEAN, inform \in BOOLEAN : ClOpen(wait, inform) /\ UNCHANGED <<proc, bc, ic, fin, uc>>
  \/ \E k \in Keys : ClStart(k) /\ UNCHANGED <<proc, bc, ic, fin, uc>>
  \/ ClientThread
  \/ \E n \in Nodes : WatchNext(n) /\ UNCHANGED <<proc, bc, cl, ic, fin, uc>>
  \/ \E n \in Nodes : Crash(n) /\ UNCHANGED <<proc, bc, cl, ic, fin, uc>>
  \/ \E n \in Nodes : Restart(n) /\ UNCHANGED <<proc, bc, cl, ic, fin, uc>>
  \/ \E n \in Nodes : ClientSetAvailable(n) /\ UNCHANGED <<proc, bc, cl, ic, fin, uc>>

SpecClient ==
  Init /\ [][NextClient]_vars /\ WF_vars(ClientThread)

\* ----------------------------------------------------------- SpecBatch
BShards == 0 .. BatchShards - 1

\* The cluster of SpecBatch: node 0 created it with BatchShards shards, node 1
\* joined.  With Draining = {s} the migration of shard s to node 1 has got as
\* far as GiveShard: node 0 holds s, draining, and node 1 is declared master.
BatchCluster(Draining) ==
  LET b == SetRunning(AddNode(AddNodeWithNewShards(NoInfo, AddressOf(0), BatchShards),
                              AddressOf(1)))
  IN [b EXCEPT !.state = IF Draining = {} THEN RUNNING ELSE MIGRATING,
               !.shards = [i \in 1 .. BatchShards |->
                  IF i - 1 \in Draining
                  THEN [master |-> 1, migrating |-> TRUE, from |-> 0, to |-> 1]
                  ELSE @[i]]]

InitBatch ==
  \E Draining \in {{}} \cup {{s} : s \in BShards} :
    /\ etcd = BatchCluster(Draining)
    /\ crashes = 0
    /\ proc = [p \in Procs |->
         [id |-> -1, pc |-> "idle", op |-> "none", args |-> <<>>,
          old |-> NoInfo, info |-> NoInfo]]
    /\ up = [n \in Pair |-> n = 0]
    /\ view = [n \in Nodes |-> IF n = 0 THEN BatchCluster(Draining) ELSE NoInfo]
    /\ watchq = [n \in Nodes |-> <<>>]
    /\ shards = [n \in Nodes |-> [s \in BShards |->
                   IF n # 0 THEN NoShard
                   ELSE [NewShard(FALSE, 0, 0) EXCEPT !.draining = s \in Draining]]]
    /\ db = [n \in Nodes |-> [s \in BShards |->
               IF n # 0 THEN NoCF
               ELSE [NewCF EXCEPT !.live = [k \in Keys |->
                       IF ShardForKey(BatchCluster(Draining), k) = s THEN 1 ELSE 0]]]]
    /\ imp = [n \in Nodes |-> [s \in BShards |-> NoImport]]
    /\ wt = [n \in Nodes |-> NoWatch]
    /\ mc = [n \in Nodes |-> NoCall]
    /\ st = [n \in Nodes |-> NoStream]
    /\ getc = NoGet
    /\ ver = 1
    /\ hist = [k \in Keys |-> [acked |-> 1, last |-> 1, lastAtMaster |-> TRUE]]
    /\ snap = [s \in AllShards |-> EmptyLevel]
    /\ rsp = NoRsp
    /\ bc = [NoBatch EXCEPT !.before = db[0]]
    /\ cl = NoClient
    /\ ic = NoIter
    /\ fin = [n \in Nodes |-> {}]
    /\ uc = NoUc

NextBatch ==
  \/ BatchRequest
  \/ \E c \in Chunks : ClientSend(c)
  \/ ClientClose
  \/ ClientCancel
  \/ BatchRead
  \/ BatchReadEnd
  \/ BatchWrite
  \/ BatchFinish
  \/ BatchOnDone
  \/ BatchKill

SpecBatch == InitBatch /\ [][NextBatch]_vars

\* ------------------------------------------------------------ SpecDrain
\* SpecResume with Batch calls on the first node, the donor: the one Put
\* of a behaviour is sent on a Batch stream.  A server that is killed loses
\* the BatchCall it serves.
Batches ==
  \/ ver = 1 /\ BatchRequest
  \/ \E k \in Keys : ver = 1 /\ ClientSend([i \in {1} |-> <<"Put", k>>])
  \/ ClientClose
  \/ ClientCancel
  \/ BatchRead
  \/ BatchReadEnd
  \/ BatchWrite
  \/ BatchFinish
  \/ BatchOnDone
  \/ BatchKill

NextDrain ==
  \/ Batches
  \/ OperatorMigrate /\ UNCHANGED <<proc, bc, cl, ic, fin, uc>>
  \/ Servers
  \/ \E n \in Nodes : Crash(n) /\ (n = 0 => bc.status = "none") /\ UNCHANGED <<proc, bc, cl, ic, fin, uc>>
  \/ Recovery

SpecDrain == Init /\ [][NextDrain]_vars

\* ----------------------------------------------------------- SpecReturn
\* The first node created the cluster, the second joined with a shard of its
\* own and is now marked for removal: its shard migrates to the first node,
\* the recipient, which serves Batch streams meanwhile.
Returning ==
  MarkRemoveNode(SetRunning(
    AddNodeWithNewShards(AddNodeWithNewShards(NoInfo, AddressOf(0), NumShards - 1),
                         AddressOf(1), 1)), 1)

InitReturn ==
  /\ etcd = Returning
  /\ crashes = 0
  /\ proc = [p \in Procs |->
       [id |-> -1, pc |-> "idle", op |-> "none", args |-> <<>>,
        old |-> NoInfo, info |-> NoInfo]]
  /\ up = [n \in Pair |-> TRUE]
  /\ view = [n \in Nodes |-> Returning]
  /\ watchq = [n \in Nodes |-> <<>>]
  /\ shards = [n \in Nodes |-> [s \in AllShards |->
                 IF IndexForShard(Returning, s) = n THEN NewShard(FALSE, 0, 0)
                 ELSE NoShard]]
  /\ db = [n \in Nodes |-> [s \in AllShards |->
              IF IndexForShard(Returning, s) # n THEN NoCF
              ELSE [NewCF EXCEPT !.live = [k \in Keys |->
                      IF ShardForKey(Returning, k) = s THEN 1 ELSE 0]]]]
  /\ hist = [k \in Keys |-> [acked |-> 1, last |-> 1, lastAtMaster |-> TRUE]]
  /\ imp = [n \in Nodes |-> [s \in AllShards |-> NoImport]]
  /\ wt = [n \in Nodes |-> StartTasks(Returning, n)]
  /\ mc = [n \in Nodes |-> NoCall]
  /\ st = [n \in Nodes |-> NoStream]
  /\ getc = NoGet
  /\ ver = 1
  /\ snap = [s \in AllShards |-> EmptyLevel]
  /\ rsp = NoRsp
  /\ bc = NoBatch
  /\ cl = NoClient
  /\ ic = NoIter
  /\ fin = [n \in Nodes |-> {}]
  /\ uc = NoUc

NextReturn ==
  \/ BatchRequest
  \/ \E k \in Keys : ClientSend([i \in {1} |-> <<"Put", k>>])
  \/ ClientClose
  \/ BatchRead
  \/ BatchReadEnd
  \/ BatchWrite
  \/ BatchFinish
  \/ BatchOnDone
  \/ OperatorMigrate /\ UNCHANGED <<proc, bc, cl, ic, fin, uc>>
  \/ Servers

SpecReturn == InitReturn /\ [][NextReturn]_vars

\* ------------------------------------------------------------- SpecWait
\* SpecDrain without failures, under fairness: the servers' threads run, and
\* the client of an open Batch stream half-closes it or cancels the call.
Handlers ==
  \/ BatchRead
  \/ BatchReadEnd
  \/ BatchWrite
  \/ BatchFinish
  \/ BatchOnDone

Ends ==
  \/ ClientClose
  \/ ClientCancel

NextWait ==
  \/ ver = 1 /\ BatchRequest
  \/ \E k \in Keys : ver = 1 /\ ClientSend([i \in {1} |-> <<"Put", k>>])
  \/ Ends
  \/ Handlers
  \/ OperatorMigrate /\ UNCHANGED <<proc, bc, cl, ic, fin, uc>>
  \/ Servers

SpecWait ==
  Init /\ [][NextWait]_vars
  /\ WF_vars(Servers) /\ WF_vars(Handlers) /\ WF_vars(Ends)

\* ------------------------------------------------------------ SpecLeave
\* SpecResume with the operator's remove: a node flagged for removal gives
\* all its shards away, removes itself from ClusterInfo and shuts down.
NextLeave ==
  \/ \E id \in Nodes : OperatorRemove(id) /\ UNCHANGED <<proc, bc, cl, ic, fin, uc>>
  \/ OperatorMigrate /\ UNCHANGED <<proc, bc, cl, ic, fin, uc>>
  \/ Servers
  \/ \E n \in Nodes : Crash(n) /\ UNCHANGED <<proc, bc, cl, ic, fin, uc>>
  \/ Recovery

SpecLeave ==
  Init /\ [][NextLeave]_vars /\ WF_vars(Servers) /\ WF_vars(Recovery)

\* ----------------------------------------------------------- SpecDonors
\* Three servers.  Nodes 0 and 1 joined the cluster while it was in INIT,
\* with NumShards - 1 shards and one shard, node 2 joined it when it was
\* RUNNING, and the operator flagged nodes 0 and 1 for removal: the next
\* migrate hands every shard to node 2, which imports from two donors.  A
\* donor may be killed and is started again; no client is there, so that a
\* node is marked unavailable by the peer of its Migrate stream only.
Trio == {0, 1, 2}
Leaving ==
  MarkRemoveNode(MarkRemoveNode(AddNode(SetRunning(
    AddNodeWithNewShards(AddNodeWithNewShards(NoInfo, AddressOf(0), NumShards - 1),
                         AddressOf(1), 1)), AddressOf(2)), 0), 1)

InitDonors ==
  /\ etcd = Leaving
  /\ crashes = 0
  /\ proc = [p \in Procs |->
       [id |-> -1, pc |-> "idle", op |-> "none", args |-> <<>>,
        old |-> NoInfo, info |-> NoInfo]]
  /\ up = [n \in Trio |-> TRUE]
  /\ view = [n \in Nodes |-> Leaving]
  /\ watchq = [n \in Nodes |-> <<>>]
  /\ shards = [n \in Nodes |-> [s \in AllShards |->
                 IF IndexForShard(Leaving, s) = n THEN NewShard(FALSE, 0, 0)
                 ELSE NoShard]]
  /\ db = [n \in Nodes |-> [s \in AllShards |->
              IF IndexForShard(Leaving, s) # n THEN NoCF
              ELSE [NewCF EXCEPT !.live = [k \in Keys |->
                      IF ShardForKey(Leaving, k) = s THEN 1 ELSE 0]]]]
  /\ hist = [k \in Keys |-> [acked |-> 1, last |-> 1, lastAtMaster |-> TRUE]]
  /\ imp = [n \in Nodes |-> [s \in AllShards |-> NoImport]]
  /\ wt = [n \in Nodes |-> StartTasks(Leaving, n)]
  /\ mc = [n \in Nodes |-> NoCall]
  /\ st = [n \in Nodes |-> NoStream]
  /\ getc = NoGet
  /\ ver = 1
  /\ snap = [s \in AllShards |-> EmptyLevel]
  /\ rsp = NoRsp
  /\ bc = NoBatch
  /\ cl = NoClient
  /\ ic = NoIter
  /\ fin = [n \in Nodes |-> {}]
  /\ uc = NoUc

NextDonors ==
  \/ OperatorMigrate /\ UNCHANGED <<proc, bc, cl, ic, fin, uc>>
  \/ Servers
  \/ \E n \in Pair : Crash(n) /\ UNCHANGED <<proc, bc, cl, ic, fin, uc>>
  \/ \E n \in Nodes : Restart(n) /\ UNCHANGED <<proc, bc, cl, ic, fin, uc>>

SpecDonors ==
  /\ InitDonors
  /\ [][NextDonors]_vars
  /\ WF_vars(Servers)
  /\ WF_vars(\E n \in Nodes : Restart(n) /\ UNCHANGED <<proc, bc, cl, ic, fin, uc>>)

\* ----------------------------------------------------------- SpecShared
\* The two donors and the recipient of SpecDonors, nobody is killed, and
\* Info::GiveShard runs statement by statement beside the WatchThread.
NextShared ==
  \/ OperatorMigrate /\ UNCHANGED <<proc, bc, cl, ic, fin, uc>>
  \/ \E d \in Nodes, r \in Nodes : GiveGet(d, r) /\ UNCHANGED <<proc, bc, cl, ic, fin, uc>>
  \/ \E d \in Nodes : GiveOld(d) /\ UNCHANGED <<proc, bc, cl, ic, fin, uc>>
  \/ \E d \in Nodes : GiveMutate(d) /\ UNCHANGED <<proc, bc, cl, ic, fin, uc>>
  \/ \E d \in Nodes : GiveTxn(d) /\ UNCHANGED <<proc, bc, cl, ic, fin, uc>>
  \/ Serving

SpecShared == InitDonors /\ [][NextShared]_vars

\* ------------------------------------------------------------- SpecCall
\* Spec, with the client's calls followed from the request to the release of
\* the call object; the client may give a call up at any time.
Calls ==
  \/ \E n \in Nodes, k \in Keys : CallMutate(n, k, "Put") /\ UNCHANGED <<proc, bc, cl, ic, fin>>
  \/ \E n \in Nodes, k \in Keys : CallMutate(n, k, "Delete") /\ UNCHANGED <<proc, bc, cl, ic, fin>>
  \/ \E n \in Nodes, k \in Keys : CallGet(n, k) /\ UNCHANGED <<proc, bc, cl, ic, fin>>
  \/ GetCallForced /\ UNCHANGED <<proc, bc, cl, ic, fin, uc>>
  \/ CallGetGet /\ UNCHANGED <<proc, bc, cl, ic, fin>>
  \/ CallCancel /\ UNCHANGED <<proc, bc, cl, ic, fin>>
  \/ CallFinished /\ UNCHANGED <<proc, bc, cl, ic, fin>>
  \/ CallProceedFinish /\ UNCHANGED <<proc, bc, cl, ic, fin>>
  \/ CallOnDone /\ UNCHANGED <<proc, bc, cl, ic, fin>>

NextCall == Calls \/ Migration

SpecCall == Init /\ [][NextCall]_vars

\* ------------------------------------------------------------ SpecIter
\* One Iterator stream on a node whose column families hold any of the
\* keys of IterKeys, each in the column family of its shard.
InitIter ==
  /\ etcd = Running
  /\ crashes = 0
  /\ proc = [p \in Procs |->
       [id |-> -1, pc |-> "idle", op |-> "none", args |-> <<>>,
        old |-> NoInfo, info |-> NoInfo]]
  /\ up = [n \in Pair |-> n = 0]
  /\ view = [n \in Nodes |-> IF n = 0 THEN Running ELSE NoInfo]
  /\ watchq = [n \in Nodes |-> <<>>]
  /\ shards = [n \in Nodes |-> [s \in AllShards |->
                 IF n = 0 THEN NewShard(FALSE, 0, 0) ELSE NoShard]]
  /\ db = [n \in Nodes |-> [s \in AllShards |-> IF n = 0 THEN NewCF ELSE NoCF]]
  /\ imp = [n \in Nodes |-> [s \in AllShards |-> NoImport]]
  /\ wt = [n \in Nodes |-> NoWatch]
  /\ mc = [n \in Nodes |-> NoCall]
  /\ st = [n \in Nodes |-> NoStream]
  /\ getc = NoGet
  /\ ver = 0
  /\ hist = [k \in Keys |-> [acked |-> 0, last |-> 0, lastAtMaster |-> FALSE]]
  /\ snap = [s \in AllShards |-> EmptyLevel]
  /\ rsp = NoRsp
  /\ bc = NoBatch
  /\ cl = NoClient
  /\ fin = [n \in Nodes |-> {}]
  /\ uc = NoUc
  /\ \E held \in SUBSET IterKeys :
       ic = [NoIter EXCEPT !.status = "REQUEST",
               !.cfs = [i \in 1 .. NumShards |->
                  {[key |-> k, value |-> IterValue(k)] :
                     k \in {h \in held : Crc32(h) % NumShards = i - 1}}]]

NextIter ==
  \/ IterRequest
  \/ \E request \in IteratorRequests : IterRead(request)
  \/ IterReadEnd
  \/ IterWrite
  \/ IterWriteEnd
  \/ IterCancel
  \/ IterFinish
  \/ IterOnDone

SpecIter == InitIter /\ [][NextIter]_vars

\* C2: in every reachable coordinator blob every shard id in [0, num_shards)
\* has exactly one declared master: the shard list is as long as the shards
\* the nodes declared, and each shard's master is one slot of the node list.
C2_OneMaster ==
  etcd # NoInfo =>
    /\ Len(etcd.shards) > 0
    /\ \A s \in ShardIds(etcd) :
         Cardinality({id \in NodeIds(etcd) : IndexForShard(etcd, s) = id}) = 1

\* The first node was flagged for removal, gave all its shards to the second
\* one through migrate, give_shard and migration_over, and removed itself.
C2_Witness ==
  /\ etcd # NoInfo
  /\ Len(etcd.nodes) = 2
  /\ Address(etcd, 0) = 0
  /\ IsRunning(etcd)
  /\ \A s \in ShardIds(etcd) : IndexForShard(etcd, s) = 1 /\ ~IsMigratingShard(etcd, s)

\* ------------------------------------------------- reads, writes, migration
\* A response to a client's Put or Delete.
IsWrite(r) == r.op \in {"Put", "Delete"}
\* The entry shows the write of version v or a later write.
AtLeast(e, v) == e >= v \/ 0 - e >= v

\* C1: a Put that the declared master acknowledged is not lost across a
\* migration: a Get that starts later at the node that is then the declared
\* master, and is answered, shows that write or a later one.
C1_AckedPutIsRead ==
  (rsp.op = "Get" /\ rsp.code = "OK" /\ rsp.atMaster /\ rsp.floor > 0)
    => AtLeast(rsp.entry, rsp.floor)

\* The recipient is declared master and still importing, the client's Put of
\* version 2 was acknowledged there, and the Get that followed was forwarded
\* to the donor and answered with the donor's older value.
C1_Lost ==
  /\ rsp.op = "Get" /\ rsp.code = "OK" /\ rsp.atMaster /\ rsp.asked
  /\ rsp.node = 1 /\ rsp.floor = 2 /\ rsp.entry = 1
  /\ Lookup(db[1][ShardForKey(etcd, rsp.key)], rsp.key) = 2

\* C4: a Get that starts after a Delete completed at the declared master, with
\* no write to the key since, reports NotFound, also on a recipient that is
\* importing while the donor still holds an older value.
C4_GetAfterDelete ==
  (/\ rsp.op = "Get" /\ rsp.code = "OK" /\ rsp.atMaster
   /\ rsp.last < 0 /\ rsp.lastAtMaster /\ rsp.quiet)
    => NotFound(rsp.entry)

\* The Delete completed on the importing recipient, the Get that followed was
\* forwarded and answered with the value the donor still holds.
C4_Resurrected ==
  /\ rsp.op = "Get" /\ rsp.code = "OK" /\ rsp.atMaster /\ rsp.asked
  /\ rsp.last < 0 /\ rsp.lastAtMaster /\ rsp.quiet
  /\ rsp.entry > 0

\* C8: a Put or Delete that reaches a node which its ClusterInfo does not
\* declare master of the key's shard fails with invalid-argument and changes
\* no column family, also when the node holds the shard and is not draining.
C8_WrongShardWrite ==
  (IsWrite(rsp) /\ rsp.wrong) => (rsp.code = "INVALID_ARGUMENT" /\ ~rsp.changed)

\* The recipient created the shard and has not been handed it yet: the write
\* that reached it was applied and acknowledged.
C8_Accepted ==
  /\ IsWrite(rsp) /\ rsp.wrong /\ ~rsp.atMaster
  /\ rsp.held /\ ~rsp.draining
  /\ rsp.code = "OK" /\ rsp.changed

\* C9: a Get without force at a node that its ClusterInfo does not declare
\* master fails with invalid-argument, nothing is read and nothing forwarded;
\* the forwarded Get (force) is answered from the local shard whoever is
\* declared master, and fails with invalid-argument only when the shard is
\* absent.
C9_GetWrongShardAndForce ==
  /\ (rsp.op = "Get" /\ rsp.wrong)
       => (rsp.code = "INVALID_ARGUMENT" /\ ~rsp.asked /\ rsp.entry = 0)
  /\ getc.status # "none" => ~getc.wrong
  /\ getc.fwd \in {"OK", "INVALID_ARGUMENT"}
       => /\ (getc.fwd = "INVALID_ARGUMENT") <=> ~getc.fwdHeld
          /\ getc.fwd = "OK" => getc.entry = getc.fwdLocal

\* The donor, no longer declared master, refused a client's Get, and answered
\* the Get that the importing recipient forwarded with force.
C9_Witness ==
  /\ rsp.op = "Get" /\ rsp.wrong /\ rsp.node = 0 /\ rsp.code = "INVALID_ARGUMENT"
  /\ getc.status = "GET" /\ getc.node = 1
  /\ getc.fwd = "OK" /\ getc.fwdWrong /\ getc.fwdHeld /\ getc.entry > 0

\* C7: once a shard has executed Unref(terminal=true) it stays draining while
\* the process holds it, no Ref succeeds, its column family does not change,
\* and a Put or Delete that starts afterwards gets invalid-argument.
C7_Step ==
  /\ \A n \in Nodes, s \in AllShards :
       (shards[n][s] # NoShard /\ shards[n][s].draining /\ shards'[n][s] # NoShard)
         => /\ shards'[n][s].draining
            /\ shards'[n][s].refs <= shards[n][s].refs
            /\ db'[n][s] = db[n][s]
  /\ (rsp' # rsp /\ IsWrite(rsp') /\ rsp'.draining)
       => (rsp'.code = "INVALID_ARGUMENT" /\ ~rsp'.changed)

C3_SnapshotArrives ==
  \A s \in AllShards :
    /\ \A r \in Nodes \ {0} :
         (/\ up[r] /\ shards[r][s] # NoShard /\ ~shards[r][s].importing
          /\ IndexForShard(etcd, s) = r /\ ~IsMigratingShard(etcd, s))
           => \A k \in Keys : snap[s][k] # 0 => db[r][s].behind[k] = snap[s][k]
    /\ \A k \in Keys :
         (ShardForKey(etcd, k) = s /\ hist[k].last > 0)
           => \E n \in Nodes : db[n][s] # NoCF /\ Lookup(db[n][s], k) > 0

\* The migration is over, the donor dropped the column family, and a key of
\* the donor's snapshot that no client deleted is on no node.
C3_Missing ==
  \E k \in Keys :
    LET s == ShardForKey(etcd, k) IN
    /\ IndexForShard(etcd, s) = 1 /\ ~IsMigratingShard(etcd, s)
    /\ shards[1][s] # NoShard /\ ~shards[1][s].importing
    /\ snap[s][k] # 0 /\ hist[k].last > 0
    /\ db[0][s] = NoCF
    /\ Lookup(db[1][s], k) = 0

\* ------------------------------------------------------------ Batch streams
\* The updates the client wrote on the stream, in order.
RECURSIVE Flat(_)
Flat(notes) ==
  IF notes = <<>> THEN <<>> ELSE Head(notes).updates \o Flat(Tail(notes))

\* The entry of the last update of key k among ups, 0 when there is none.
LastOf(ups, k) ==
  LET is == {i \in 1 .. Len(ups) : ups[i].key = k}
  IN IF is = {} THEN 0 ELSE ups[CHOOSE i \in is : \A j \in is : j <= i].entry

\* The stream's updates are all for one shard in each BatchBuffer.
PerShard(notes) ==
  \A i \in 1 .. Len(notes) : \A j \in 1 .. Len(notes[i].updates) :
    ShardForKey(etcd, notes[i].updates[j].key) = notes[i].shard

\* The shards the stream's updates are for.
Targets(notes) == {ShardForKey(etcd, Flat(notes)[i].key) : i \in 1 .. Len(Flat(notes))}

\* The client saw only OK on the stream, the status of the commit included.
WriteOk ==
  /\ bc.closed /\ bc.committed /\ bc.in = <<>>
  /\ \A i \in 1 .. Len(bc.out) : bc.out[i] = "OK"

\* C5: a Batch stream is atomic: no update is visible before the inbound
\* stream half-closes; a stream that is cancelled, or whose server is killed,
\* before the commit leaves the storage as it was.
C5_NothingBeforeHalfClose ==
  db[0] # bc.before => bc.closed

\* The client cancelled the stream it had not half-closed, and the updates it
\* had sent are in the column family.
C5_CancelledCommitted ==
  /\ bc.cancelled /\ ~bc.closed /\ bc.committed
  /\ db[0] # bc.before

RECURSIVE Routed(_)
Routed(notes) ==
  IF notes = <<>> THEN <<>>
  ELSE LET n == Head(notes) IN
       (IF n.accepted
        THEN [i \in 1 .. Len(n.updates) |->
                [cf |-> n.shard, key |-> n.updates[i].key, entry |-> n.updates[i].entry]]
        ELSE <<>>) \o Routed(Tail(notes))

RECURSIVE Stored(_, _)
Stored(cfs, ups) ==
  IF ups = <<>> THEN cfs
  ELSE Stored([cfs EXCEPT ![Head(ups).cf].live[Head(ups).key] = Head(ups).entry],
              Tail(ups))

C11_MigratingIffShard ==
  etcd # NoInfo => (IsMigrating(etcd) <=> ~NoMigrations(etcd))

\* The second node joined without shards, a migrate handed it a shard, and
\* its migration_over on the last migrating shard left the cluster RUNNING.
C11_Witness ==
  /\ etcd # NoInfo
  /\ Len(etcd.nodes) = 2
  /\ NodeAt(etcd, 1).num_shards = 0
  /\ \E s \in ShardIds(etcd) : IndexForShard(etcd, s) = 1
  /\ \A s \in ShardIds(etcd) : ShardAt(etcd, s).to = 0 /\ ShardAt(etcd, s).from = 0
  /\ NoMigrations(etcd) /\ IsRunning(etcd)

\* ------------------------------------------------------------- migration
\* Every node's tasks are empty, in etcd and in the copy of each server.
NoTasks ==
  \A n \in Nodes :
    /\ Tasks(etcd, n) = {}
    /\ up[n] => (wt[n].todo = <<>> /\ wt[n].pc = "watch")

RECURSIVE HandOver(_, _)
HandOver(b, todo) ==
  IF todo = {} THEN b
  ELSE LET s == CHOOSE t \in todo : TRUE
       IN HandOver(MigrationOverW(GiveShardW(b, ShardAt(b, s).from, s), s), todo \ {s})

Uninterrupted ==
  LET b == SetMigrating(RedistributeShards(Running))
  IN HandOver(b, {s \in ShardIds(b) : ShardAt(b, s).migrating})

\* The state an uninterrupted run ends in: the final ClusterInfo, and on its
\* master every shard holds the keys it held before the migration.
SameAsUninterrupted ==
  /\ etcd = Uninterrupted
  /\ \A k \in Keys :
       LET s == ShardForKey(etcd, k)
           m == IndexForShard(etcd, s)
       IN /\ up[m] /\ shards[m][s] # NoShard
          /\ db[m][s] # NoCF /\ Lookup(db[m][s], k) = 1
          /\ \A j \in Keys \ {k} : ShardForKey(etcd, j) # s => Lookup(db[m][s], j) = 0

\* C13: a migration during which the donor or the recipient is killed and
\* restarted completes, and ends in the state of an uninterrupted run; no
\* SST file is ingested twice or missed.
C13_Resumable ==
  /\ IsMigrating(etcd) ~> (IsRunning(etcd) /\ NoMigrations(etcd))
  /\ []((IsRunning(etcd) /\ NoMigrations(etcd) /\ etcd # Running /\ NoTasks
          /\ \A n \in Nodes : up[n])
        => SameAsUninterrupted)

\* The recipient was killed during the migration and restarted, the
\* migration completed and both servers run, but the donor's OnDone for the
\* cancelled stream ran after the restart: the recipient, master of the shard
\* it imported, is left marked unavailable.
C13_StaleUnavailable ==
  /\ crashes = 1
  /\ \A n \in Nodes : up[n] /\ wt[n].pc = "watch" /\ mc[n] = NoCall
  /\ IsRunning(etcd) /\ NoMigrations(etcd)
  /\ etcd.shards = Uninterrupted.shards
  /\ ~IsAvailable(etcd, 1)

\* ------------------------------------------------------------------ joining
\* Process p runs one pass of the body of Info::Add's loop in this step.
AddPass(p) ==
  /\ proc[p].pc # "cas" /\ proc[p].id = -1
  /\ \/ proc'[p].pc = "cas" /\ proc'[p].op = "Add"
     \/ proc'[p].pc = "exit" /\ proc[p].pc # "exit"

\* The transaction of process p's Info::Add succeeds in this step.
AddDone(p) ==
  /\ proc[p].pc = "cas" /\ proc[p].op = "Add"
  /\ proc'[p].pc = "idle"
  /\ crashes' = crashes                                \* the process was not killed

\* C19: add(address) with an address that is in ClusterInfo is a recovery
\* exactly when the slot is unavailable: the slot's id is returned and the
\* transaction leaves nodes and shards as they are, whatever the cluster
\* state; when the slot is available the join fails, nothing is written.
C19_Step ==
  \A p \in Procs :
    LET id == IndexOf(etcd, p) IN
    /\ (AddPass(p) /\ etcd # NoInfo /\ id >= 0) =>
         /\ etcd' = etcd
         /\ IF IsAvailable(etcd, id)
            THEN proc'[p].pc = "exit" /\ proc'[p].id = -1
            ELSE /\ proc'[p].pc = "cas" /\ proc'[p].id = id
                 /\ proc'[p].info = etcd
    /\ (AddDone(p) /\ etcd # NoInfo /\ id >= 0) =>
         /\ etcd' = etcd
         /\ proc'[p].id = id

C19_AddRecovers == [][C19_Step]_vars

\* The server of a slot crashed while the cluster was MIGRATING, the slot was
\* marked unavailable, and Info::Add returned the slot to the server that was
\* started again.
C19_Witness ==
  \E p \in Procs :
    /\ crashes = 1
    /\ etcd # NoInfo /\ IsMigrating(etcd)
    /\ proc[p].pc = "idle"
    /\ proc[p].id >= 0 /\ proc[p].id = IndexOf(etcd, p)
    /\ ~IsAvailable(etcd, proc[p].id)

\* C20: Info::Add of an address that is not in ClusterInfo, while the state
\* is MIGRATING, is rejected: the process exits with an error, it has no id,
\* and the blob in etcd (nodes, shards, state) is the one it read.
C20_Step ==
  \A p \in Procs :
    (AddPass(p) /\ etcd # NoInfo /\ IsMigrating(etcd) /\ IndexOf(etcd, p) = -1) =>
      /\ proc'[p].pc = "exit"
      /\ proc'[p].id = -1
      /\ etcd' = etcd

C20_AddRejected == [][C20_Step]_vars

\* A server was turned away: its address is not in ClusterInfo and the
\* cluster is MIGRATING.
C20_Witness ==
  \E p \in Procs :
    /\ proc[p].pc = "exit"
    /\ etcd # NoInfo /\ IsMigrating(etcd)
    /\ IndexOf(etcd, p) = -1

\* ------------------------------------------------------------ the client
\* The client's Operation is under way.
Busy == cl.pc \notin {"closed", "idle"}

\* One step of Operation after INVALID_ARGUMENT: Update(), and the retry goes
\* to the master of the refreshed info_.
C14_Step ==
  /\ (cl.pc = "got" /\ cl.status = "INVALID_ARGUMENT" /\ cl' # cl) =>
       /\ cl'.info = etcd
       /\ cl'.pc = "retry"
  /\ (cl.pc = "retry" /\ cl' # cl) =>
       /\ cl'.info = cl.info
       /\ cl'.sent = IndexForKey(cl.info, cl.key)

\* C14: an operation that is answered INVALID_ARGUMENT refreshes ClusterInfo
\* and retries against the node the refreshed map declares master; once the
\* master of the key's shard stops changing and is up, the operation returns
\* a status that is not transient: the answer of the node it was sent to.
C14_RetriesWithNewMaster ==
  /\ [][C14_Step]_vars
  /\ \A k \in Keys, m \in Pair :
       <>[](MasterOf(k) = m /\ up[m]) =>
         [](Busy /\ cl.key = k =>
              <>(cl.pc = "idle" /\ cl.ret \notin Transient \cup {"none"}))

\* The client's copy was stale, the former master answered INVALID_ARGUMENT,
\* and the retry was answered OK by the new master.
C14_Witness ==
  /\ cl.pc = "got" /\ cl.status = "OK"
  /\ "INVALID_ARGUMENT" \in cl.saw
  /\ cl.sent = 1 /\ MasterOf(cl.key) = 1

\* Operation returns in this step.
Returns == Busy /\ cl'.pc = "idle"

\* One step of Operation, as C15 reads it.  Unhealthy is what the client's
\* copy of ClusterInfo (info_) says, the only health Operation consults.
C15_Step ==
  /\ (Returns /\ cl'.ret \in Transient) =>
       /\ ~cl.wait_on_unhealthy
       /\ ~IsHealthy(cl'.info)
  /\ (cl.wait_on_unhealthy /\ cl.pc \in {"got", "ping", "loop"}
        /\ cl'.pc \in {"idle", "waiting", "retry"}
        /\ cl.status = "UNAVAILABLE" /\ cl'.info = cl.info
        /\ ~IsHealthy(cl'.info)) => cl'.pc = "waiting"
  /\ (cl.pc = "waiting" /\ cl' # cl) => (IsHealthy(etcd) /\ cl'.pc = "waited")
  /\ (cl.pc = "waited" /\ cl' # cl) => (cl'.info = etcd /\ cl'.pc = "retry")

\* C15: Operation returns UNAVAILABLE or INVALID_ARGUMENT only when its
\* ClusterInfo is unhealthy and wait_on_unhealthy is false; with
\* wait_on_unhealthy true it blocks in WaitUntilHealthy whenever it finds the
\* cluster unhealthy, refreshes and retries, and never returns such a status.
C15_TransientOnlyIfUnhealthy == [][C15_Step]_vars

\* The master was killed and marked unavailable; the client, which waits on
\* an unhealthy cluster, was released by WaitUntilHealthy after the restart.
C15_Witness ==
  /\ cl.pc = "waited" /\ cl.wait_on_unhealthy
  /\ cl.status = "UNAVAILABLE"
  /\ crashes = 1 /\ IsHealthy(etcd)

\* C16 as stated: the retries of an operation are bounded, so an operation
\* that does not wait on an unhealthy cluster returns, whatever the servers
\* keep answering.
C16_BoundedRetries == (Busy /\ ~cl.wait_on_unhealthy) ~> (cl.pc = "idle")

\* One step of Operation's loops: what ends them.
C16_Step ==
  /\ Returns =>
       \/ cl'.ret \notin Transient
       \/ ~IsHealthy(cl.info) /\ ~cl.wait_on_unhealthy
  /\ (cl.pc = "loop" /\ cl' # cl /\ cl'.pc # "loop_ping") =>
       \/ cl.ping_status = "OK"
       \/ ~IsHealthy(cl.info)
  /\ (cl.pc = "got" /\ cl.status \in Transient /\ cl' # cl) => ~Returns \/ ~IsHealthy(cl.info)

\* C16: Operation's loops have no bound.  The loop of case 3 ends only when
\* a Ping succeeds or the client's ClusterInfo is unhealthy, and Operation
\* returns only a status that is not transient, or the transient one when
\* its ClusterInfo is unhealthy and wait_on_unhealthy is false.
C16_RetriesWhileHealthy == [][C16_Step]_vars

\* The master is down, nobody told etcd, and the client, which neither waits
\* nor informs, is probing it once more.
C16_Witness ==
  /\ cl.pc = "loop" /\ cl.pinged # -1 /\ cl.ping_status = "UNAVAILABLE"
  /\ ~cl.wait_on_unhealthy /\ ~cl.inform_on_unavailable
  /\ ~up[IndexForKey(cl.info, cl.key)]
  /\ IsHealthy(etcd) /\ IsHealthy(cl.info)

\* C17: the client writes available = false for a node only if
\* inform_on_unavailable is set and its latest Ping was addressed to that
\* node and failed.
C17_Step ==
  (cl.pc = "inform" /\ cl'.pc = "loop" /\ etcd' # etcd) =>
    /\ cl.inform_on_unavailable
    /\ IsAvailable(etcd, cl.id) /\ ~IsAvailable(etcd', cl.id)
    /\ cl.pinged = cl.id
    /\ cl.ping_status # "OK"

C17_InformsAfterFailedPing == [][C17_Step]_vars

\* The master was started again, the client's Ping to it succeeded, and the
\* client marked it unavailable all the same: the running master is
\* unavailable in ClusterInfo.
C17_MarkedAfterPingOk ==
  /\ cl.pc = "loop" /\ cl.inform_on_unavailable
  /\ cl.ping_status = "OK" /\ cl.pinged = cl.id
  /\ up[cl.id]
  /\ ~IsAvailable(etcd, cl.id)

\* The client sends its operation to node n in this step.
SendsTo(n) ==
  /\ cl.pc \in {"idle", "retry"}
  /\ cl'.pc \in {"got", "wait"}
  /\ cl'.sent = n

\* Node r opens a Migrate stream to the donor d in this step.
Requests(r, d) == ~st[r].open /\ st'[r].open /\ st'[r].donor = d

\* C18: a node that ClusterInfo marks unavailable is not sent an operation by
\* a client whose copy of ClusterInfo shows it unavailable, and is not asked
\* for a shard by a recipient whose copy shows it unavailable.
C18_Step ==
  /\ \A n \in Nodes :
       SendsTo(n) => ~(~IsAvailable(etcd, n) /\ ~IsAvailable(cl.info, n))
  /\ \A r \in Nodes, d \in Nodes :
       Requests(r, d) => ~(~IsAvailable(etcd, d) /\ ~IsAvailable(view[r], d))

C18_UnavailableNotContacted == [][C18_Step]_vars

\* An operation was sent to the node that etcd and the client's ClusterInfo
\* both mark unavailable, and that is still down.
C18_SentToUnavailable ==
  /\ cl.pc = "got" /\ cl.sent >= 0
  /\ ~IsAvailable(etcd, cl.sent) /\ ~IsAvailable(cl.info, cl.sent)
  /\ ~up[cl.sent]
  /\ cl.saw = {"UNAVAILABLE"} /\ cl.id = -1

\* ---------------------------------------------------------------- run
\* Process p's Info::Run leaves a blob to be written in this step.
RunPass(p) ==
  /\ proc[p].pc # "cas"
  /\ proc'[p].pc = "cas" /\ proc'[p].op = "Run"

\* The transaction of process p's Info::Run is attempted in this step.
RunTxn(p) ==
  /\ proc[p].pc = "cas" /\ proc[p].op = "Run"
  /\ proc'[p].pc # "cas"
  /\ crashes' = crashes

\* C21: run moves ClusterState from INIT to RUNNING, only when no shard is
\* migrating, and changes nothing else in the blob; a run that finds the
\* cluster RUNNING or MIGRATING, a second run included, writes nothing.
C21_Step ==
  \A p \in Procs :
    /\ RunPass(p) =>
         /\ IsInit(etcd) /\ NoMigrations(etcd)
         /\ proc'[p].old = etcd
         /\ proc'[p].info = [etcd EXCEPT !.state = RUNNING]
    /\ RunTxn(p) =>
         \/ etcd' = etcd
         \/ /\ IsInit(etcd) /\ NoMigrations(etcd)
            /\ etcd' = [etcd EXCEPT !.state = RUNNING]
    /\ (proc[p].pc = "retry" /\ proc[p].op = "Run" /\ proc'[p].pc = "idle"
          /\ crashes' = crashes) =>
         /\ ~(IsInit(etcd) /\ NoMigrations(etcd))
         /\ etcd' = etcd

C21_RunOnlyFromInit == [][C21_Step]_vars

\* Two runs raced on an INIT cluster: one made it RUNNING, the transaction of
\* the other failed and its loop is about to find the cluster RUNNING.
C21_Witness ==
  \E p \in Procs :
    /\ proc[p].pc = "retry" /\ proc[p].op = "Run"
    /\ IsInit(proc[p].old)
    /\ IsRunning(etcd)

\* ClusterState goes from INIT to RUNNING in this step.
LeavesInit == IsInit(etcd) /\ IsRunning(etcd')

\* C22: ClusterState leaves INIT for RUNNING only through the run the
\* operator issues: the transaction of an Info::Run that is not part of a
\* client's opening of the cluster, of a join or of a migration.
C22_Step ==
  LeavesInit =>
    \E p \in Procs :
      /\ proc[p].pc = "cas" /\ proc[p].op = "Run"
      /\ proc'[p].pc = "idle"

C22_OnlyOperatorRuns == [][C22_Step]_vars

\* A client opened a cluster that was in INIT and the transaction of its
\* Info::Run succeeded: the cluster is RUNNING, no operator ran it.
C22_ClientRan ==
  \E p \in Procs :
    /\ proc[p].pc = "cas" /\ proc[p].op = "Open"
    /\ IsInit(proc[p].old) /\ etcd = proc[p].old
    /\ IsRunning(proc[p].info)

\* -------------------------------------------------------------- migrate
\* Process p's Info::Migrate leaves a blob to be written in this step.
MigratePass(p) ==
  /\ proc[p].pc # "cas"
  /\ proc'[p].pc = "cas" /\ proc'[p].op = "Migrate"

\* What Info::Migrate may make of the blob old: the nodes and every master
\* are kept, the shards that migrate already are kept, and a shard that is
\* marked goes from its master to another node.
Marks(old, new) ==
  /\ new.nodes = old.nodes
  /\ Len(new.shards) = Len(old.shards)
  /\ IsMigrating(new) /\ ~NoMigrations(new)
  /\ \A s \in ShardIds(old) :
       /\ IndexForShard(new, s) = IndexForShard(old, s)
       /\ ShardAt(old, s).migrating => ShardAt(new, s) = ShardAt(old, s)
       /\ (~ShardAt(old, s).migrating /\ ShardAt(new, s).migrating) =>
            /\ ShardAt(new, s).from = IndexForShard(old, s)
            /\ ShardAt(new, s).to # IndexForShard(old, s)
            /\ ShardAt(new, s).to \in NodeIds(old)

\* One step of Info::Migrate, whatever it writes.
MigrateMarks ==
  \A p \in Procs :
    /\ MigratePass(p) => (proc'[p].old = etcd /\ Marks(etcd, proc'[p].info))
    /\ (proc[p].pc = "cas" /\ proc[p].op = "Migrate" /\ proc'[p].pc # "cas"
          /\ crashes' = crashes) =>
         (etcd' = etcd \/ (etcd = proc[p].old /\ etcd' = proc[p].info))
    /\ (proc[p].pc = "retry" /\ proc[p].op = "Migrate" /\ proc'[p].pc = "idle"
          /\ crashes' = crashes) =>
         (NoMigrations(etcd) /\ etcd' = etcd)

\* C23 as stated: migrate keeps every master, marks shards from their master
\* to another node, and attempts no write when the redistribution moves no
\* shard.
C23_NoWriteIfNothingMoves ==
  [][MigrateMarks /\ \A p \in Procs : MigratePass(p) => proc'[p].info # etcd]_vars

\* C23: migrate keeps every master and marks shards from their master to
\* another node.  It attempts no write when no shard is migrating after the
\* redistribution; when shards migrate already and none is added it writes
\* back the blob it read.
C23_MigrateKeepsMasters == [][MigrateMarks]_vars

\* A migrate on a cluster that is MIGRATING already: nothing more moves, and
\* the blob it read is about to be written back.
C23_Witness ==
  \E p \in Procs :
    /\ proc[p].pc = "cas" /\ proc[p].op = "Migrate"
    /\ proc[p].old = etcd /\ proc[p].info = etcd
    /\ IsMigrating(etcd)

\* ----------------------------------------------------------- iterator
\* Every pair of the column families, once.
Held == UNION {ic.cfs[i] : i \in DOMAIN ic.cfs}

Ascending(kvs) == \A i \in 1 .. Len(kvs) - 1 : kvs[i].key < kvs[i + 1].key
Descending(kvs) == \A i \in 1 .. Len(kvs) - 1 : kvs[i].key > kvs[i + 1].key
Once(kvs) == \A i, j \in 1 .. Len(kvs) : kvs[i] = kvs[j] => i = j
Range(kvs) == {kvs[i] : i \in 1 .. Len(kvs)}

\* C24: SEEK_TO_FIRST and then NEXT until a response has done set returns
\* every pair of the node's column families once in ascending key order
\* (SEEK_TO_LAST and PREV: in descending order); a response has at most
\* kIteratorBatchSize pairs, and done is set exactly when the iterator is
\* exhausted after the response.
C24_ScanReturnsAll ==
  ic.status \in {"READ", "WRITE"} =>
    /\ Len(ic.response.kvs) <= kIteratorBatchSize
    /\ ic.request.op # "none" => (ic.response.done <=> ~Valid(ic.it, ic.pos))
    /\ ic.mode \in {"first", "last"} =>
         /\ Once(ic.got) /\ Range(ic.got) \subseteq Held
         /\ ic.mode = "first" => Ascending(ic.got)
         /\ ic.mode = "last" => Descending(ic.got)
         /\ ic.response.done <=> Range(ic.got) = Held

\* A scan of more pairs than one response holds ended: the second response
\* had done set.
C24_Witness ==
  /\ ic.status = "READ" /\ ic.mode = "first" /\ ic.request.op = "NEXT"
  /\ ic.response.done
  /\ Len(ic.got) > kIteratorBatchSize
  /\ Range(ic.got) = Held

\* ------------------------------------------------------------- the drain
\* Donor d runs DumpShard in this step.
Dumps(d) == mc[d].status = "READ" /\ mc'[d].status = "WRITE"

\* Donor d took a snapshot of shard s for the migration that etcd records:
\* the MigrateCall it serves is past DumpShard, or the recipient has
\* ingested a file of the dump.
Dumped(d, s) ==
  /\ etcd # NoInfo /\ s \in ShardIds(etcd)
  /\ ShardAt(etcd, s).migrating /\ ShardAt(etcd, s).from = d
  /\ \/ mc[d].status \in {"WRITE", "FINISH"} /\ mc[d].shard = s
     \/ \E r \in Nodes : imp[r][s].num > 0

\* The shard is draining and nobody holds a reference when DumpShard runs.
QuietAtDump ==
  \A d \in Nodes : Dumps(d) =>
    /\ shards[d][mc[d].shard] # NoShard
    /\ shards[d][mc[d].shard].draining
    /\ shards[d][mc[d].shard].refs = 0

\* No write is applied to the donor's column family once it was dumped.
QuietAfterDump ==
  \A d \in Nodes, s \in AllShards :
    (Dumped(d, s) /\ db[d][s] # NoCF /\ db'[d][s] # NoCF) => db'[d][s] = db[d][s]

\* C25: when the donor runs DumpShard the shard is draining and its
\* reference count is zero, on the first Migrate request, on a resumed one
\* and after a donor restart; no write is applied to the donor's column
\* family afterwards.
C25_QuiescedAtDump == [][QuietAtDump /\ QuietAfterDump]_vars

\* The donor was killed after it dumped the shard and runs again; its new
\* Shard is not draining and a Batch call holds a reference to it.
C25_RefAfterRestart ==
  \E s \in AllShards :
    /\ Dumped(0, s) /\ up[0] /\ crashes > 0
    /\ shards[0][s] # NoShard /\ ~shards[0][s].draining
    /\ s \in bc.got_ref /\ shards[0][s].refs > 0

\* What does hold: DumpShard runs on a draining shard that nobody references.
DumpIsQuiet == [][QuietAtDump]_vars

\* ------------------------------------------------------------ give_shard
\* Donor d's MigrateCall reads the request for shard s in this step: the
\* step of Unref(true) and Info::GiveShard.
Gives(d, s) ==
  mc[d].status = "none" /\ mc'[d].status = "READ" /\ mc'[d].shard = s

MasterMoves(s) ==
  LET old == ShardAt(etcd, s)
      new == ShardAt(etcd', s)
  IN /\ new.migrating => new.master \in {new.from, new.to}
     /\ new.master # old.master =>
          /\ old.migrating /\ new.migrating
          /\ old.master = old.from /\ new.master = old.to
          /\ new.from = old.from /\ new.to = old.to
          /\ Gives(old.from, s)
     /\ (old.migrating /\ ~new.migrating) =>
          /\ old.master = old.to /\ new.master = old.to
          /\ new.from = 0 /\ new.to = 0
     /\ \A d \in Nodes : (Gives(d, s) /\ old.migrating /\ old.master = old.to) =>
          new.master = old.to

Acks(r) ==
  /\ Len(st'[r].resp) = Len(st[r].resp) + 1
  /\ st'[r].resp[Len(st'[r].resp)] = Ack

\* Recipient r reads a message of the dump in this step.
Receives(r) ==
  /\ wt[r].pc = "recv" /\ st[r].resp # <<>>
  /\ st'[r].resp = Tail(st[r].resp)

AckAfterGive ==
  \A r \in Nodes :
    /\ Acks(r) =>
         LET d == st[r].donor
             s == mc'[d].shard
         IN /\ shards'[d][s] # NoShard /\ shards'[d][s].draining
            /\ IndexForShard(etcd', s) = r
    /\ Receives(r) => IndexForShard(view[r], wt[r].shard) = r

Commits(p) ==
  /\ proc[p].pc = "cas" /\ proc'[p].pc = "idle"
  /\ crashes' = crashes

\* The mutation of the call, applied to the blob b.
Mutation(c, b) ==
  CASE c.op = "GiveShard" -> GiveShardW(b, c.id, c.args[1])
    [] c.op = "MigrationOver" -> MigrationOverW(b, c.args[1])
    [] c.op = "SetAvailable" -> SetAvailableW(b, c.args[1], c.args[2])
    [] OTHER -> c.info

CasStep ==
  /\ etcd' # etcd => \E p \in Procs : Commits(p)
  /\ \A p \in Procs :
       /\ Commits(p) =>
            /\ etcd = proc[p].old
            /\ etcd' = Mutation(proc[p], etcd)
       /\ (proc[p].pc = "cas" /\ proc'[p].pc = "retry") =>
            (etcd # proc[p].old /\ etcd' = etcd)

Holds(s) == bc.status # "none" /\ s \in bc.got_ref /\ ~bc.finish_called

\* C30: a reference taken by a handler is released once on every way out
\* of the call: the reference count of a shard is 1 while the Batch call
\* holds it and 0 otherwise, never negative, and the shard stays in the
\* registry while the call holds it; Put and Delete take and release theirs
\* within one step.
C30_RefsBalanced ==
  \A s \in DOMAIN shards[0] :
    /\ Holds(s) => shards[0][s] # NoShard
    /\ shards[0][s] # NoShard =>
         /\ shards[0][s].refs >= 0
         /\ shards[0][s].refs = IF Holds(s) THEN 1 ELSE 0

\* A call that held a reference was cancelled and is released: OnDone and
\* state FINISH both ran.
C30_Witness ==
  /\ up[0] /\ bc.status = "none"
  /\ bc.cancelled /\ bc.finish_called /\ bc.on_done_called
  /\ bc.got_ref # {}
  /\ \A s \in bc.got_ref : shards[0][s] # NoShard /\ shards[0][s].refs = 0

\* ---------------------------------------------------------------- C31
\* The step in which the running donor d takes shard s out of its registry.
Removes(d, s) ==
  /\ up[d]
  /\ crashes' = crashes
  /\ shards[d][s] # NoShard
  /\ shards'[d][s] = NoShard

\* The step in which node d clears its address in ClusterInfo.
RemovesSelf(d) ==
  /\ Address(etcd, d) # 0
  /\ Address(etcd', d) = 0

\* The step in which recipient r writes a further request on its stream.
Terminates(r) ==
  /\ st[r].open /\ st'[r].open
  /\ Len(st'[r].req) > Len(st[r].req)

\* The step in which recipient r reads the last message of the dump.
ReadsLast(r) ==
  /\ up[r]
  /\ wt[r].pc = "recv"
  /\ wt'[r].pc = "finish"

HandedOver ==
  /\ \A d \in Nodes, s \in AllShards :
       Removes(d, s) =>
         /\ mc[d].shard = s /\ mc[d].status = "FINISH" /\ ~mc[d].cancelled
         /\ s \in fin[mc[d].peer]
         /\ db'[d][s] = NoCF
  /\ \A d \in Nodes :
       (mc'[d].term /\ ~mc[d].term) =>
         /\ mc[d].status = "DONE"
         /\ st[mc[d].peer].donor = d
         /\ st[mc[d].peer].req = <<[shard |-> mc[d].shard, start_from |-> 0]>>
         /\ mc[d].shard \in fin[mc[d].peer]
  /\ \A r \in Nodes :
       /\ \A s \in AllShards :
            (s \in fin'[r] /\ s \notin fin[r]) => wt[r].pc = "finish" /\ wt[r].shard = s
       /\ Terminates(r) =>
            /\ wt[r].pc = "finish"
            /\ st'[r].req = <<[shard |-> wt[r].shard, start_from |-> 0]>>
       /\ ReadsLast(r) =>
            /\ st[r].resp = <<[type |-> "finished", kv |-> EmptyLevel, largest_key |-> 0]>>
            /\ st'[r].resp = <<>>
  /\ \A d \in Nodes :
       RemovesSelf(d) =>
         /\ mc[d].status = "FINISH" /\ ~mc[d].cancelled
         /\ Empty(shards'[d])
         /\ ~up'[d]
         /\ \A s \in AllShards : IndexForShard(etcd', s) # d

\* C31: a donor takes a shard out of its registry, and drops its column
\* family, only in the OnDone of an uncancelled Migrate call for that shard
\* whose recipient has written its terminating request; the recipient writes
\* that request only after it read the message marked finished, the last of
\* the dump, and state DONE reads nothing else; and a node clears its address
\* and shuts down only in the OnDone of an uncancelled call, with an empty
\* registry and master of no shard.
C31_RemovedAfterHandOver == [][HandedOver]_vars

\* The donor was killed and started again during the migration, and has
\* given all its shards away, removed itself and shut down.
C31_Witness ==
  /\ crashes = 1
  /\ Address(etcd, 0) = 0
  /\ ~up[0]
  /\ Empty(shards[0])
  /\ \A s \in AllShards : db[0][s] = NoCF /\ db[1][s] # NoCF

\* ---------------------------------------------------------------- C32
\* The step in which the OnDone of donor d's MigrateCall runs.
OnDoneRuns(d) ==
  /\ up[d]
  /\ crashes' = crashes
  /\ mc[d].status # "none"
  /\ ~mc[d].on_done_called
  /\ mc'[d] = NoCall \/ mc'[d].on_done_called

Cancelled ==
  /\ \A d \in Nodes :
       (OnDoneRuns(d) /\ mc[d].cancelled) =>
         /\ ~IsAvailable(etcd', mc[d].peer)
         /\ ~IsAvailable(view'[d], mc[d].peer)
         /\ shards'[d] = shards[d]
         /\ db'[d] = db[d]
         /\ shards[d][mc[d].shard] # NoShard
         /\ shards[d][mc[d].shard].draining
         /\ up'[d]
  /\ \A d \in Nodes, s \in AllShards :
       Removes(d, s) => OnDoneRuns(d) /\ ~mc[d].cancelled

\* C32: the OnDone of a cancelled Migrate call leaves the calling node
\* unavailable in etcd and leaves the donor's registry and column families
\* as they are, the call's shard still held and draining; a running node
\* takes a shard out of its registry only in the OnDone of a call that was
\* not cancelled.
C32_CancelledKeepsShard == [][Cancelled]_vars

\* The recipient was killed during the dump, its call was cancelled, and the
\* donor serves its request for the same shard again, from the SST files the
\* recipient lacks.
C32_Witness ==
  /\ crashes = 1
  /\ mc[0].status = "WRITE"
  /\ ~mc[0].retval
  /\ mc[0].start_from > 0
  /\ up[1]
  /\ wt[1].shard = mc[0].shard
  /\ wt[1].pc = "recv"

\* ---- C33: the re-check of a forwarded Get
\* C33: whenever a forwarded Get failed (other than with the former master
\* unavailable and still listed) or was answered invalid-argument, the local
\* re-check answers without asking again: assert(!ask) in state GET holds.
C33_AssertHolds == rsp.code # "ASSERT"

\* The re-check asked again: the former master had already dropped the shard
\* (or had left), the shard was still importing here and the key is not in
\* the ingested files.
C33_AssertFails ==
  /\ rsp.op = "Get"
  /\ rsp.code = "ASSERT"
  /\ LET n == rsp.node
         s == ShardForKey(view[n], rsp.key)
     IN /\ shards[n][s] # NoShard
        /\ shards[n][s].importing
        /\ NotFound(Lookup(db[n][s], rsp.key))
        /\ \A d \in Nodes \ {n} : shards[d][s] = NoShard

\* ---- C34: the recipient's retry
\* Node r still has to import shard s from node d.
Owes(r, d, s) ==
  /\ s \in ShardIds(etcd)
  /\ ShardAt(etcd, s).migrating
  /\ ShardAt(etcd, s).to = r
  /\ ShardAt(etcd, s).from = d

\* The donor of a shard that r has to import is down and marked unavailable.
Marked(r, d, s) ==
  /\ Owes(r, d, s)
  /\ up[r]
  /\ ~up[d]
  /\ ~IsAvailable(etcd, d)

\* The recipient's request for the shard is on a stream to the running donor.
AsksAgain(r, d, s) ==
  /\ up[r] /\ up[d]
  /\ st[r].open /\ st[r].donor = d /\ st[r].status = "none"
  /\ wt[r].pc = "ack" /\ wt[r].shard = s

\* C34: a recipient that marked a donor unavailable after a failed Migrate
\* stream requests again, once the donor is back and available, every shard
\* it still has to import from it, whichever wait of its WatchThread took the
\* watch event of the donor's return.
C34_RetriesAfterReturn ==
  \A d \in Pair : Marked(2, d, d) ~> AsksAgain(2, d, d)

\* The watch event of donor 0's return was taken by a wait inside the import
\* of shard 1: node 2 waits in while (!info_.WatchNext(call_)) with nothing
\* left to be delivered, its copy of ClusterInfo shows the donor available,
\* and the shard it has to import from it is not requested.
C34_LostWakeUp ==
  /\ Trio \subseteq Nodes
  /\ up[2] /\ up[0]
  /\ IsAvailable(etcd, 0) /\ IsAvailable(view[2], 0)
  /\ Owes(2, 0, 0)
  /\ wt[2].pc = "watch" /\ watchq[2] = <<>> /\ ~st[2].open
  /\ wt[0].pc = "watch" /\ watchq[0] = <<>> /\ mc[0] = NoCall
  /\ ~up[1] /\ Address(etcd, 1) = 0
  /\ crashes = MaxCrashes

\* ---- C35: the release of a call object
\* The tag of the call's last operation has not been processed.
Outstanding == uc.op # "none" \/ "proceed" \in uc.cq

CallReleased ==
  /\ uc.deleted <= 1
  /\ uc.deleted = 1 =>
       uc.finish_called /\ uc.on_done_called /\ uc.cq = {} /\ uc.op = "none"
  /\ (uc.kind # "none" /\ uc.deleted = 0) => (uc.op # "none" \/ uc.cq # {})

CallStep ==
  /\ uc'.deleted > uc.deleted =>
       /\ uc.deleted = 0
       /\ uc'.finish_called /\ uc'.on_done_called
       /\ uc.finish_called \/ uc.on_done_called
  /\ (uc.on_done_called /\ Outstanding /\ uc.deleted = 0 /\ uc' # uc) =>
       /\ rsp' = rsp
       /\ uc'.status = "FINISH"
       /\ uc'.op \in {uc.op, "none"}
       /\ uc'.deleted = IF uc'.op = "none" /\ "proceed" \notin uc'.cq THEN 1 ELSE 0

\* C35: a call object is released once, after both Proceed in state FINISH and
\* OnDone have run, in either order, and it does not stay unreleased with no
\* event to come; once OnDone has run while an operation is outstanding the
\* call answers nothing more and is released when the tag of that operation
\* is processed.
C35_ReleasedOnce == []CallReleased /\ [][CallStep]_vars

\* A Get was given up while it was forwarded to the former master and was
\* released without an answer.
C35_Witness ==
  /\ uc.kind = "Get"
  /\ uc.deleted = 1
  /\ rsp = NoRsp
  /\ getc = NoGet

\* ---- C36: node ids are not reused
\* No slot of ClusterInfo.nodes goes away, and the address of a slot stays
\* what it is or becomes empty.
SlotsKept ==
  \A i \in NodeIds(etcd) :
    /\ i \in NodeIds(etcd')
    /\ Address(etcd', i) \in {Address(etcd, i), 0}

\* C36: the address of NodeInfo[i] takes at most one non-empty value: it can
\* only change to empty, so a connection that a client opened to the address
\* of slot i is, at every later refresh, to the address the slot lists
\* unless that is empty (the assertion of ClusterImpl::Update).
C36_IdsNotReused == [][SlotsKept]_vars

\* A process removed itself and joined again: it got a new slot, the one it
\* had keeps its empty address.
C36_Witness ==
  \E p \in Procs, i \in NodeIds(etcd) :
    /\ proc[p].id \in NodeIds(etcd)
    /\ proc[p].id > i
    /\ Address(etcd, proc[p].id) = p
    /\ Address(etcd, i) = 0
    /\ Len(etcd.nodes) > MaxProcs

C38_RefusedNeverCommits ==
  bc.committed =>
    \A i, j \in DOMAIN bc.sent : ~bc.sent[i].accepted => ~bc.sent[j].accepted

\* The recipient refused the first BatchBuffer for a shard it did not hold yet,
\* took a reference for the next one, after its WatchThread had added the
\* shard, and wrote that buffer's update at the half-close.
C38_LaterChunkCommitted ==
  /\ bc.committed
  /\ \E i, j \in DOMAIN bc.sent :
       /\ i < j
       /\ bc.sent[i].shard = bc.sent[j].shard
       /\ ~bc.sent[i].accepted /\ bc.sent[j].accepted
       /\ LET u == bc.sent[j].updates[1]
          IN /\ u.key # bc.sent[i].updates[1].key
             /\ db[0][bc.sent[j].shard] # NoCF
             /\ db[0][bc.sent[j].shard].live[u.key] = u.entry
             /\ bc.before[bc.sent[j].shard] = NoCF

\* ---------------------------------------------------------------- C39
\* The step in which donor d's GiveShard returns: its transaction succeeded.
GiveReturns(d) == mc[d].status = "give" /\ mc'[d].status = "READ"

\* C39: when Info::GiveShard(shard) returns on the donor, ClusterInfo in etcd
\* records the recipient as the shard's master, and the value written differs
\* from the value replaced in that shard's master only, whatever the donor's
\* WatchThread parsed into info_ meanwhile.
C39_GiveShardWritesMaster ==
  [][\A d \in Trio : GiveReturns(d) =>
        etcd' = [etcd EXCEPT !.shards[mc[d].shard + 1].master = mc[d].peer]]_vars

\* GiveShard has returned on donor 0, which acknowledged the request and is
\* about to dump the draining shard, and ClusterInfo in etcd still names the
\* donor as the shard's master: the WatchThread parsed the event of the
\* operator's migrate into info_ after info_.GiveShard and before Serialize.
C39_MasterNotGiven ==
  /\ mc[0].status = "READ" /\ mc[0].peer = 2
  /\ shards[0][mc[0].shard].draining
  /\ Ack \in {st[2].resp[i] : i \in DOMAIN st[2].resp}
  /\ IndexForShard(etcd, mc[0].shard) = 0
  /\ watchq[0] = <<etcd>>
  /\ mc[1].status = "none"

\* ---------------------------------------------------------------- C40
\* Donor d's handler is in WaitRefs: Unref(true) returned true and the
\* shard is still referenced.
InWaitRefs(d) ==
  /\ up[d]
  /\ mc[d].status = "READ" /\ mc[d].retval
  /\ shards[d][mc[d].shard].refs > 0

\* The BatchCall holds a reference and has not reached state FINISH's Unref.
HoldsRef == bc.status # "none" /\ bc.got_ref # {} /\ ~bc.finish_called

\* C40: the donor's drain terminates: once the handler is past Unref(true)
\* it reaches DumpShard, provided the Batch stream that holds a reference is
\* half-closed or cancelled; while it is in WaitRefs its MigrateCall does not
\* move (the thread of migrate_cq_ serves no other event), and the BatchCall
\* that holds a reference, or its client, always has a step to take.
C40_DrainTerminates ==
  /\ [](\A d \in Pair : (mc[d].status = "READ") => <>(mc[d].status = "WRITE"))
  /\ [][\A d \in Pair : InWaitRefs(d) => mc'[d] = mc[d]]_vars
  /\ [](\A d \in Pair : (InWaitRefs(d) /\ HoldsRef) => ENABLED (Handlers \/ Ends))

\* The donor gave the shard to the recipient and waits in WaitRefs for the
\* reference of a Batch stream, which its client has half-closed already: the
\* BatchCall has the batch to write and the reference to release.
C40_Witness ==
  /\ InWaitRefs(0) /\ HoldsRef
  /\ mc[0].shard \in bc.got_ref
  /\ bc.status = "READ" /\ bc.closed /\ bc.in = <<>> /\ ~bc.committed
  /\ bc.batch # <<>>
  /\ IndexForShard(etcd, mc[0].shard) = 1
====
